---- MODULE Spec2Model ----
(***************************************************************************)
(* Model of the Hadoop IPC client of pkg/yarn/client/ipc/client.go:       *)
(* Client.Call, getConnection, the connection header, the SASL            *)
(* TOKEN/DIGEST-MD5 negotiation, the connection context, sendRequest and  *)
(* readResponse.  One Call runs at a time; the server and the token store *)
(* are the environment.  A Go run-time panic is the outcome "panicked".   *)
(***************************************************************************)
EXTENDS Integers, Sequences, FiniteSets, TLC

\* ------------------------------------------------------------------------
\* Bounds of the model
\* ------------------------------------------------------------------------
MaxCalls == 2
MaxTokenChanges == 1
MaxSizeClass == 3
MaxThreads == 2
MaxContainers == 2
MaxPayloads == 2
MaxKills == 1
MaxRequests == 4

\* ------------------------------------------------------------------------
\* Program constants
\* ------------------------------------------------------------------------
SASL_RPC_DUMMY_CLIENT_ID == << >>
SASL_RPC_CALL_ID == -33
SASL_RPC_INVALID_RETRY_COUNT == -1
ConnectionContextCallId == -3
UserCallId == 0
UserRetryCount == 0
RPC_DEFAULT_RETRY_COUNT == "yarnauth.RPC_DEFAULT_RETRY_COUNT"
ClientIdLen == 16

AUTH_PROTOCOL_NONE == "NONE"
AUTH_PROTOCOL_SASL == "SASL"

ServerAddress == "rm:8032"
OtherService == "nn:8020"
NilToken == "nil-token"
NilString == "<nil>"
NilErr == << >>

\* ------------------------------------------------------------------------
\* Plain sequence helpers
\* ------------------------------------------------------------------------
Min(a, b) == IF a < b THEN a ELSE b

Range(s) == { s[i] : i \in DOMAIN s }

Take(s, n) == SubSeq(s, 1, Min(n, Len(s)))

IsPrefix(s, t) == Len(s) <= Len(t) /\ SubSeq(t, 1, Len(s)) = s

Zeros(n) == [i \in 1..n |-> 0]

\* ------------------------------------------------------------------------
\* Varint codec and Go slicing
\* ------------------------------------------------------------------------
\* Mutant: a byte of a varint is taken to carry 8 bits.
sizeVarint_eightBits(x) ==
    IF x < 256 THEN 1 ELSE IF x < 65536 THEN 2 ELSE IF x < 16777216 THEN 3 ELSE 4

\* sizeVarint(x): the number of bytes of the varint of x, x >= 0.
RECURSIVE sizeVarint(_)
sizeVarint(x) == IF x \div 128 = 0 THEN 1 ELSE 1 + sizeVarint(x \div 128)

RECURSIVE AppendVarint(_)
AppendVarint(v) ==
    IF v < 128 THEN << v >> ELSE << (v % 128) + 128 >> \o AppendVarint(v \div 128)

RECURSIVE Pow128(_)
Pow128(n) == IF n = 0 THEN 1 ELSE 128 * Pow128(n - 1)

\* protowire.ConsumeVarint: [v, n]; n = -1 for a truncated varint, -3 for
\* one that overflows 64 bits, else the number of bytes consumed.
RECURSIVE ConsumeVarintFrom(_, _, _)
ConsumeVarintFrom(b, i, acc) ==
    IF i > Len(b) THEN [v |-> 0, n |-> -1]
    ELSE IF i = 10
         THEN IF b[i] < 2 THEN [v |-> acc + b[i] * Pow128(9), n |-> 10]
              ELSE [v |-> 0, n |-> -3]
         ELSE IF b[i] < 128 THEN [v |-> acc + b[i] * Pow128(i - 1), n |-> i]
              ELSE ConsumeVarintFrom(b, i + 1, acc + (b[i] - 128) * Pow128(i - 1))

ConsumeVarint(b) == ConsumeVarintFrom(b, 1, 0)

\* Go's s[lo:hi] on a slice whose capacity equals its length.
SliceOk(s, lo, hi) == 0 <= lo /\ lo <= hi /\ hi <= Len(s)

Slice(s, lo, hi) == SubSeq(s, lo + 1, hi)

\* A byte of a field the message types of the model do not look at.
FillByte == 250

\* proto.Marshal of the message with code c that carries n more bytes.
Marshal(c, n) == << c >> \o [i \in 1..n |-> FillByte]

\* proto.Unmarshal into a message of the type whose known encodings are
\* table: a code c, alone or followed by fill bytes, decodes to table[c];
\* no bytes decode to the empty message, empty = << m >>, unless the type
\* has required fields, empty = << >>; anything else is a parse error.
Unmarshal(b, table, empty) ==
    IF Len(b) >= 1 /\ b[1] \in DOMAIN table /\ \A i \in 2..Len(b) : b[i] = FillByte
    THEN [err |-> FALSE, msg |-> table[b[1]]]
    ELSE IF Len(b) = 0 /\ empty # << >>
         THEN [err |-> FALSE, msg |-> empty[1]]
         ELSE [err |-> TRUE, msg |-> table[1]]

\* Mutant: the offset returned leaves out the bytes of the varint.
readDelimited_lengthOnly(rawData, table, empty) ==
    LET cv == ConsumeVarint(rawData)
        off == cv.n
        headerLength == cv.v
    IN IF off = 0 THEN [kind |-> "zero", off |-> -1, msg |-> table[1], b |-> << >>]
       ELSE IF ~SliceOk(rawData, off, off + headerLength)
            THEN [kind |-> "panic", off |-> -1, msg |-> table[1], b |-> << >>]
            ELSE LET b == Slice(rawData, off, off + headerLength)
                     u == Unmarshal(b, table, empty)
                 IN IF u.err THEN [kind |-> "err", off |-> -1, msg |-> table[1], b |-> b]
                    ELSE [kind |-> "ok", off |-> headerLength, msg |-> u.msg, b |-> b]

\* readDelimited(rawData, msg): kind "panic" (slice bounds out of range),
\* "zero" (the off == 0 branch: -1, nil), "err" (-1, err) or "ok" (off, nil);
\* b is the slice handed to proto.Unmarshal.
readDelimited(rawData, table, empty) ==
    LET cv == ConsumeVarint(rawData)
        off == cv.n
        headerLength == cv.v
    IN IF off = 0 THEN [kind |-> "zero", off |-> -1, msg |-> table[1], b |-> << >>]
       ELSE IF ~SliceOk(rawData, off, off + headerLength)
            THEN [kind |-> "panic", off |-> -1, msg |-> table[1], b |-> << >>]
            ELSE LET b == Slice(rawData, off, off + headerLength)
                     u == Unmarshal(b, table, empty)
                 IN IF u.err THEN [kind |-> "err", off |-> -1, msg |-> table[1], b |-> b]
                    ELSE [kind |-> "ok", off |-> off + headerLength, msg |-> u.msg, b |-> b]

\* What the server does to delimit a message (the peer of readDelimited).
Delimited(m) == AppendVarint(Len(m)) \o m

\* The four big-endian bytes of an int32 (what the peer puts on the wire).
BE32(x) ==
    LET y == IF x >= 0 THEN x ELSE x + 2147483647 + 1
        top == y \div 16777216
    IN << IF x >= 0 THEN top ELSE top + 128,
          (y \div 65536) % 256, (y \div 256) % 256, y % 256 >>

\* yarnauth.ConvertBytesToFixed(bytes, &totalLength): four big-endian bytes
\* into an int32.
ConvertBytesToFixed(b) ==
    LET top == IF b[1] < 128 THEN b[1] ELSE b[1] - 128
        y == ((top * 256 + b[2]) * 256 + b[3]) * 256 + b[4]
    IN IF b[1] < 128 THEN y ELSE y - 2147483647 - 1

\* ------------------------------------------------------------------------
\* Messages the server can answer with
\* ------------------------------------------------------------------------
IdA == [i \in 1..ClientIdLen |-> i]
IdB == [i \in 1..ClientIdLen |-> IF i = ClientIdLen THEN 0 ELSE i + 100]
ClientIds == {IdA, IdB}

NoId == [present |-> FALSE, bytes |-> << >>]
Id(b) == [present |-> TRUE, bytes |-> b]

Hdr(cid, st, cls, msg, det) ==
    [clientId |-> cid, status |-> st, exceptionClassName |-> cls,
     errorMsg |-> msg, errorDetail |-> det]

\* RpcResponseHeaderProto values; the code of a header is its index.
HeaderMsgs(id) == <<
    Hdr(NoId, "SUCCESS", NilString, NilString, NilString),
    Hdr(Id(id), "SUCCESS", NilString, NilString, NilString),
    Hdr(Id([id EXCEPT ![1] = 99]), "SUCCESS", NilString, NilString, NilString),
    Hdr(Id(id \o << 7 >>), "SUCCESS", NilString, NilString, NilString),
    Hdr(Id(<< 9 >> \o id), "SUCCESS", NilString, NilString, NilString),
    Hdr(Id(<< >>), "SUCCESS", NilString, NilString, NilString),
    Hdr(Id(Take(id, 5)), "SUCCESS", NilString, NilString, NilString),
    Hdr(Id(Take(id, ClientIdLen - 1)), "SUCCESS", NilString, NilString, NilString),
    Hdr(NoId, "ERROR", "java.io.IOException", "boom", "ERROR_APPLICATION"),
    Hdr(NoId, "ERROR", NilString, NilString, NilString),
    Hdr(Id(id), "FATAL", "java.io.IOException", NilString, NilString),
    Hdr(Id(id), "ERROR", NilString, "boom", NilString),
    Hdr(Id(<< >>), "FATAL", "java.io.IOException", "boom", NilString),
    Hdr(Id([id EXCEPT ![1] = 99]), "ERROR", "java.io.IOException", NilString, NilString),
    Hdr(Id(id \o << 7 >>), "ERROR", NilString, NilString, "ERROR_APPLICATION") >>

Auth(method, mechanism) == [method |-> method, mechanism |-> mechanism]

Sasl(st, auths) == [state |-> st, auths |-> auths]

\* RpcSaslProto values; the code of a message is its index.
SaslMsgs == <<
    Sasl("NEGOTIATE", << Auth("TOKEN", "DIGEST-MD5") >>),
    Sasl("NEGOTIATE", << >>),
    Sasl("NEGOTIATE", << Auth("KERBEROS", "GSSAPI"), Auth("TOKEN", "DIGEST-MD5") >>),
    Sasl("NEGOTIATE", << Auth("TOKEN", "GSSAPI") >>),
    Sasl("NEGOTIATE", << Auth("TOKEN", "DIGEST-MD5"), Auth("KERBEROS", "GSSAPI") >>),
    Sasl("SUCCESS", << >>),
    Sasl("CHALLENGE", << >>),
    Sasl("SUCCESS", << Auth("TOKEN", "DIGEST-MD5") >>) >>

\* Response payloads; the code of a payload is its index.
PayloadMsgs == << "responseA", "responseB" >>

ResponseTemplate == "template"
ResponseReset == "reset"
ResponseEmpty == "empty"

\* A reply on the wire: the outcome of the first Read, the 4-byte length
\* as an int32 and the bytes that follow it; sent names the header and the
\* message the server put into it (0: none that is whole).  first is the
\* number of bytes the transport hands to the first Read, chunk the number
\* it hands to any one Read after that.
Reply(ioerr, totalLength, body, h, m) ==
    [ioerr |-> ioerr, totalLength |-> totalLength, body |-> body,
     sent |-> [h |-> h, m |-> m], first |-> 4, chunk |-> 4 + Len(body)]

\* The same bytes, delivered in fragments.
Fragmented(reply, first, chunk) == [reply EXCEPT !.first = first, !.chunk = chunk]

Framed(body, h, m) == Reply(FALSE, Len(body), body, h, m)

WellFormed(h, m) == Framed(Delimited(<< h >>) \o Delimited(<< m >>), h, m)

MalformedReplies == {
    Reply(TRUE, 0, << >>, 0, 0),
    Reply(FALSE, 0, << >>, 0, 0),
    Reply(FALSE, -1, << >>, 0, 0),
    Reply(FALSE, 4, << >>, 0, 0),
    Reply(FALSE, 4, << 1, 1 >>, 1, 0),
    Framed(<< 128 >>, 0, 0),
    Framed(<< 5, 1 >>, 0, 0),
    Framed(Delimited(<< 1 >>), 1, 0),
    Framed(Delimited(<< 200 >>) \o Delimited(<< 1 >>), 0, 1),
    Framed(Delimited(<< 1 >>) \o << 3, 1 >>, 1, 0),
    Framed(Delimited(<< 1 >>) \o Delimited(<< 200 >>), 1, 0),
    Framed(Delimited(<< 1 >>) \o Delimited(<< >>), 1, 0) }

\* Whole frames the transport delivers in pieces.
FragmentedRpcReplies == {
    Fragmented(WellFormed(2, 1), 2, 8),
    Fragmented(WellFormed(2, 1), 4, 1) }

FragmentedSaslReplies == {
    Fragmented(WellFormed(1, 1), 1, 8),
    Fragmented(WellFormed(1, 1), 4, 2),
    Fragmented(WellFormed(1, 6), 4, 3) }

RpcReplies ==
    { WellFormed(h, 1) : h \in 1..15 } \cup { WellFormed(1, 2) }
        \cup MalformedReplies \cup FragmentedRpcReplies

SaslReplies ==
    { WellFormed(1, m) : m \in 1..8 }
        \cup { WellFormed(h, 1) : h \in {2, 6, 9, 10, 13} }
        \cup { WellFormed(6, 6), WellFormed(2, 6) }
        \cup MalformedReplies \cup FragmentedSaslReplies

\* ------------------------------------------------------------------------
\* Token store (security.GetCurrentUser().GetUserTokens())
\* ------------------------------------------------------------------------
Services == {ServerAddress, OtherService}

Store(a, o) == (ServerAddress :> a) @@ (OtherService :> o)

\* The maps the store can hold: a service is "absent" from the map, mapped
\* to a nil token, or mapped to a token.
TokenStores == {
    Store("absent", "absent"),
    Store("token", "absent"),
    Store("absent", "token"),
    Store(NilToken, "absent"),
    Store("token", "token") }

\* Mutant: any token of the user counts, whatever service it is keyed by.
findUsableTokenForService_anyService(tokens, service) ==
    \E s \in Services : tokens[s] \notin {"absent", NilToken}

\* findUsableTokenForService(service): the "found" result.
findUsableTokenForService(tokens, service) ==
    IF \A s \in Services : tokens[s] = "absent" THEN FALSE
    ELSE IF tokens[service] \notin {"absent", NilToken} THEN TRUE
    ELSE FALSE

\* ------------------------------------------------------------------------
\* State
\* ------------------------------------------------------------------------
VARIABLES
    pc,            \* where the current Call is
    calls,         \* number of Calls started
    ClientId,      \* c.ClientId
    userTokens,    \* the token store: service -> token
    tokenChanges,  \* number of changes of the token store
    dialed,        \* the TCP connection this Call dialed, 0 if none
    conn,          \* conn in Call / con in getConnection, 0 if nil
    open,          \* TCP connections opened and not closed
    authProtocol,  \* authProtocol in getConnection
    decision,      \* the token store as findUsableTokenForService saw it
    wire,          \* the writes completed on the connection, in order
    env,           \* what the server answered and the digest outcome
    rpcResponseHeaderProto,  \* the response header readResponse decoded
    response,      \* rpcCall.response, the caller's message
    err,           \* the error Call returned
    io,            \* the I/O phases of the current Call, in order
    sending,       \* a frame being written: its parts, the length field, the bytes after it
    conns,         \* concurrent Calls: the connections and who used them
    cgroup,        \* the CPU and memory cgroup directories of the node
    server         \* YarnCopilotServer.Run: its position, context, socket and listener

callVars == << pc, calls, ClientId, userTokens, tokenChanges, dialed, conn, open,
               authProtocol, decision, wire, env, rpcResponseHeaderProto,
               response, err, io >>

otherVars == << sending, conns, cgroup, server >>

vars == << callVars, otherVars >>

NoFrame == [kind |-> "none", parts |-> << >>, next |-> 0, field |-> << >>, after |-> 0]

NoConns == << >>

NoCgroup == << >>

NoServer == << >>

NoEnv == [hdr |-> << >>, neg |-> << >>, negReply |-> << >>, digest |-> << >>,
          init |-> << >>, initReply |-> << >>, ugi |-> << >>, ctx |-> << >>,
          req |-> << >>, resp |-> << >>, param |-> << >>]

\* A phase that begins with SetDeadline(time.Now().Add(rwDefaultTimeout)),
\* or the dial under Dialer.Timeout: it runs under the deadline it armed.
\* read is what a receive consumed.
Fresh(phase, read) ==
    [phase |-> phase, armed |-> Len(io) + 1, read |-> read, header |-> << >>]

\* The phase marshals this RpcRequestHeaderProto for its frame.
Headed(entry, header) == [entry EXCEPT !.header = << header >>]

\* RpcRequestHeaderProto{CallId, ClientId, RetryCount}
RpcRequestHeaderProto(callId, clientId, retryCount) ==
    [callId |-> callId, clientId |-> clientId, retryCount |-> retryCount]

\* sendSaslMessage: the header of every SASL frame.
saslRpcHeaderProto ==
    RpcRequestHeaderProto(SASL_RPC_CALL_ID, SASL_RPC_DUMMY_CLIENT_ID,
                          SASL_RPC_INVALID_RETRY_COUNT)

\* Mutant: the lines commented out in writeConnectionContext are live: with
\* SASL the connection context goes out under the call id of SASL.
connectionContextHeader_saslCallId(clientId, auth) ==
    RpcRequestHeaderProto(IF auth = AUTH_PROTOCOL_SASL THEN SASL_RPC_CALL_ID
                          ELSE ConnectionContextCallId,
                          Take(clientId, ClientIdLen), RPC_DEFAULT_RETRY_COUNT)

\* writeConnectionContext: the header of the connection context.
connectionContextHeader(clientId, auth) ==
    RpcRequestHeaderProto(ConnectionContextCallId, Take(clientId, ClientIdLen),
                          RPC_DEFAULT_RETRY_COUNT)

\* sendRequest: the header of the call, rpcCall = call{callId: 0, ...}.
rpcReqHeaderProto(clientId) ==
    RpcRequestHeaderProto(UserCallId, Take(clientId, ClientIdLen), UserRetryCount)

\* A phase that sets no deadline: the absolute deadline the connection
\* carries is the one an earlier phase armed (0: none).
Inherited(phase, read) ==
    [phase |-> phase, armed |-> IF io = << >> THEN 0 ELSE io[Len(io)].armed,
     read |-> read, header |-> << >>]

Init ==
    /\ pc = "idle"
    /\ calls = 0
    /\ ClientId \in ClientIds
    /\ userTokens \in TokenStores
    /\ tokenChanges = 0
    /\ dialed = 0
    /\ conn = 0
    /\ open = {}
    /\ authProtocol = "unset"
    /\ decision = << >>
    /\ wire = << >>
    /\ env = NoEnv
    /\ rpcResponseHeaderProto = << >>
    /\ response = ResponseTemplate
    /\ err = NilErr
    /\ io = << >>
    /\ sending = NoFrame
    /\ conns = NoConns
    /\ cgroup = NoCgroup
    /\ server = NoServer

\* ------------------------------------------------------------------------
\* The writes of each phase, in the order the code issues them
\* ------------------------------------------------------------------------
W(frame, part, val) == [frame |-> frame, part |-> part, val |-> val]

ConnectionHeaderWrites(auth) == <<
    W("connection_header", "RPC_HEADER", "-"),
    W("connection_header", "VERSION", "-"),
    W("connection_header", "RPC_SERVICE_CLASS", "-"),
    W("connection_header", "AuthProtocol", auth) >>

SaslWrites(state) == <<
    W("sasl", "totalLength", state),
    W("sasl", "header.varint", state),
    W("sasl", "header", state),
    W("sasl", "message.varint", state),
    W("sasl", "message", state) >>

ConnectionContextWrites == <<
    W("connection_context", "totalLength", "-"),
    W("connection_context", "header.varint", "-"),
    W("connection_context", "header", "-"),
    W("connection_context", "ipcCtx.varint", "-"),
    W("connection_context", "ipcCtx", "-") >>

RequestWrites == <<
    W("rpc_request", "totalLength", "-"),
    W("rpc_request", "header.varint", "-"),
    W("rpc_request", "header", "-"),
    W("rpc_request", "requestHeader.varint", "-"),
    W("rpc_request", "requestHeader", "-"),
    W("rpc_request", "param.varint", "-"),
    W("rpc_request", "param", "-") >>

\* ------------------------------------------------------------------------
\* Receive path
\* ------------------------------------------------------------------------
\* The composite error of a non-SUCCESS header, as the parts strings.Join
\* joins with ":".
errorDetails(h) ==
    LET d0 == << h.status, "ServerDidNotSetExceptionClassName",
                 "ServerDidNotSetErrorMsg", "ServerDidNotSetErrorDetail" >>
        d1 == IF h.exceptionClassName # NilString
              THEN [d0 EXCEPT ![1] = h.exceptionClassName] ELSE d0
        d2 == IF h.errorMsg # NilString THEN [d1 EXCEPT ![2] = h.errorMsg] ELSE d1
        d3 == IF h.errorDetail # NilString THEN [d2 EXCEPT ![3] = h.errorDetail] ELSE d2
    IN d3

\* Capacity of the []byte the unmarshaller builds with append(emptyBuf[:], v...):
\* 0 for no bytes, else the length or the allocator's size class above it.
SliceCap(n, grow) ==
    IF n = 0 THEN 0 ELSE IF grow THEN ((n + 7) \div 8) * 8 ELSE n

\* checkRpcHeader: "ok", "err" (Incorrect clientId) or "panic"
\* (headerClientId[0:16] past the capacity).
checkRpcHeader(id, h, grow) ==
    IF ~h.clientId.present THEN "ok"
    ELSE LET b == h.clientId.bytes
             cap == SliceCap(Len(b), grow)
         IN IF ClientIdLen > cap THEN "panic"
            ELSE IF Take(b \o Zeros(cap - Len(b)), ClientIdLen) = id THEN "ok"
            ELSE "err"

\* Mutant: the client id of a SASL header is not looked at.
checkSaslRpcHeader_unchecked(h) == "ok"

\* checkSaslRpcHeader: "ok" or "err".
checkSaslRpcHeader(h) ==
    IF h.clientId.present /\ h.clientId.bytes # SASL_RPC_DUMMY_CLIENT_ID
    THEN "err" ELSE "ok"

\* conn.con.Read(totalLengthBytes[0:4]), one Read into the zeroed array,
\* then ConvertBytesToFixed: the total length the client goes on with.
totalLengthRead(reply) ==
    ConvertBytesToFixed(Take(BE32(reply.totalLength), reply.first)
                            \o Zeros(4 - reply.first))

\* The bytes of the reply that first Read left in the connection.
Unread(reply) == SubSeq(BE32(reply.totalLength), reply.first + 1, 4) \o reply.body

\* conn.con.Read(responseBytes) of receiveSaslMessage: the number of bytes
\* the one Read puts into the buffer of total bytes.
saslBodyRead(reply) ==
    LET total == totalLengthRead(reply)
    IN IF total < 0 THEN 0 ELSE Min(Min(reply.chunk, total), Len(Unread(reply)))

\* io.ReadFull(reader, responseBytes) of readResponse: it reads until the
\* buffer of total bytes is full or the stream ends.
rpcBodyRead(reply) ==
    LET total == totalLengthRead(reply)
    IN IF total < 0 THEN 0 ELSE Min(total, Len(Unread(reply)))

\* What a receive consumed: the bytes taken for the length, the total
\* length it decoded and the bytes taken for the body, next to the total
\* length and the bytes the peer sent; << >> when the first Read failed.
Consumed(reply, body) ==
    IF reply.ioerr THEN << >>
    ELSE << [length |-> reply.first, total |-> totalLengthRead(reply), body |-> body,
             sent |-> [total |-> reply.totalLength, body |-> Len(reply.body)]] >>

Outcome(kind, e, msg) == [kind |-> kind, err |-> e, msg |-> msg]

\* receiveSaslMessage: kind "ok" with the SASL message, "err" with the
\* error, or "panic".
receiveSaslMessage(id, reply) ==
    LET total == totalLengthRead(reply)
        n == saslBodyRead(reply)
        none == SaslMsgs[1]
    IN IF reply.ioerr THEN Outcome("err", << "io" >>, none)
       ELSE IF total < 0 THEN Outcome("panic", NilErr, none)
       ELSE IF total > 0 /\ n = 0 THEN Outcome("err", << "io" >>, none)
       ELSE
         LET responseBytes == Take(Unread(reply), n) \o Zeros(total - n)
             rd == readDelimited(responseBytes, HeaderMsgs(id), << >>)
         IN IF rd.kind \in {"panic", "zero"} THEN Outcome("panic", NilErr, none)
            ELSE IF rd.kind = "err" THEN Outcome("err", << "proto: cannot parse" >>, none)
            ELSE IF checkSaslRpcHeader(rd.msg) = "err"
                 THEN Outcome("err", << "Incorrect clientId" >>, none)
            ELSE IF rd.msg.status = "SUCCESS"
                 THEN LET rd2 == readDelimited(Slice(responseBytes, rd.off, total), SaslMsgs, << >>)
                      IN IF rd2.kind = "panic" THEN Outcome("panic", NilErr, none)
                         ELSE IF rd2.kind = "err"
                              THEN Outcome("err", << "proto: cannot parse" >>, none)
                         ELSE IF rd2.kind = "zero"
                              THEN Outcome("ok", NilErr, Sasl("SUCCESS", << >>))
                         ELSE Outcome("ok", NilErr, rd2.msg)
            ELSE Outcome("err", errorDetails(rd.msg), none)

ReadOutcome(kind, e, hdr, resp) == [kind |-> kind, err |-> e, hdr |-> hdr, response |-> resp]

\* Mutant: the response is parsed from the start of the buffer, not from
\* where the header ended.
readResponse_fromStart(id, reply, old, grow) ==
    LET total == totalLengthRead(reply)
    IN IF reply.ioerr THEN ReadOutcome("return", << "io" >>, << >>, old)
       ELSE IF total < 0 THEN ReadOutcome("panic", NilErr, << >>, old)
       ELSE IF rpcBodyRead(reply) < total THEN ReadOutcome("return", << "io" >>, << >>, old)
       ELSE
         LET responseBytes == Take(Unread(reply), total)
             rd == readDelimited(responseBytes, HeaderMsgs(id), << >>)
         IN IF rd.kind \in {"panic", "zero"} THEN ReadOutcome("panic", NilErr, << >>, old)
            ELSE IF rd.kind = "err"
                 THEN ReadOutcome("return", << "proto: cannot parse" >>, << >>, old)
            ELSE LET chk == checkRpcHeader(id, rd.msg, grow)
                 IN IF chk = "panic" THEN ReadOutcome("panic", NilErr, << rd.msg >>, old)
                    ELSE IF chk = "err"
                         THEN ReadOutcome("return", << "Incorrect clientId" >>, << rd.msg >>, old)
                    ELSE IF rd.msg.status = "SUCCESS"
                         THEN LET rd2 == readDelimited(Slice(responseBytes, 0, total),
                                                       PayloadMsgs, << ResponseEmpty >>)
                              IN IF rd2.kind = "panic"
                                 THEN ReadOutcome("panic", NilErr, << rd.msg >>, old)
                                 ELSE IF rd2.kind = "err"
                                      THEN ReadOutcome("return", << "proto: cannot parse" >>,
                                                       << rd.msg >>, ResponseReset)
                                 ELSE IF rd2.kind = "zero"
                                      THEN ReadOutcome("return", NilErr, << rd.msg >>, old)
                                 ELSE ReadOutcome("return", NilErr, << rd.msg >>, rd2.msg)
                    ELSE ReadOutcome("return", errorDetails(rd.msg), << rd.msg >>, old)

\* Client.readResponse: kind "return" with the error returned (NilErr for
\* nil), the header it decoded and the caller's message afterwards, or
\* "panic".
readResponse(id, reply, old, grow) ==
    LET total == totalLengthRead(reply)
    IN IF reply.ioerr THEN ReadOutcome("return", << "io" >>, << >>, old)
       ELSE IF total < 0 THEN ReadOutcome("panic", NilErr, << >>, old)
       ELSE IF rpcBodyRead(reply) < total THEN ReadOutcome("return", << "io" >>, << >>, old)
       ELSE
         LET responseBytes == Take(Unread(reply), total)
             rd == readDelimited(responseBytes, HeaderMsgs(id), << >>)
         IN IF rd.kind \in {"panic", "zero"} THEN ReadOutcome("panic", NilErr, << >>, old)
            ELSE IF rd.kind = "err"
                 THEN ReadOutcome("return", << "proto: cannot parse" >>, << >>, old)
            ELSE LET chk == checkRpcHeader(id, rd.msg, grow)
                 IN IF chk = "panic" THEN ReadOutcome("panic", NilErr, << rd.msg >>, old)
                    ELSE IF chk = "err"
                         THEN ReadOutcome("return", << "Incorrect clientId" >>, << rd.msg >>, old)
                    ELSE IF rd.msg.status = "SUCCESS"
                         THEN LET rd2 == readDelimited(Slice(responseBytes, rd.off, total),
                                                       PayloadMsgs, << ResponseEmpty >>)
                              IN IF rd2.kind = "panic"
                                 THEN ReadOutcome("panic", NilErr, << rd.msg >>, old)
                                 ELSE IF rd2.kind = "err"
                                      THEN ReadOutcome("return", << "proto: cannot parse" >>,
                                                       << rd.msg >>, ResponseReset)
                                 ELSE IF rd2.kind = "zero"
                                      THEN ReadOutcome("return", NilErr, << rd.msg >>, old)
                                 ELSE ReadOutcome("return", NilErr, << rd.msg >>, rd2.msg)
                    ELSE ReadOutcome("return", errorDetails(rd.msg), << rd.msg >>, old)

\* ------------------------------------------------------------------------
\* Actions
\* ------------------------------------------------------------------------
\* return e from Call
Return(e) == pc' = "returned" /\ err' = e

\* A panic unwinds out of Call.
Panic == pc' = "panicked" /\ err' = err

\* Client.Call is entered: the call and its connection id are built.
Call ==
    /\ pc \in {"idle", "returned"}
    /\ calls < MaxCalls
    /\ calls' = calls + 1
    /\ pc' = "getConnection"
    /\ dialed' = 0
    /\ conn' = 0
    /\ authProtocol' = "unset"
    /\ decision' = << >>
    /\ wire' = << >>
    /\ env' = NoEnv
    /\ rpcResponseHeaderProto' = << >>
    /\ response' = ResponseTemplate
    /\ err' = NilErr
    /\ io' = << >>
    /\ UNCHANGED << ClientId, userTokens, tokenChanges, open >>
    /\ UNCHANGED otherVars

\* getConnection -> setupConnection: dial, then SetNoDelay.
setupConnection ==
    /\ pc = "getConnection"
    /\ \E outcome \in {"ok", "dial_error", "nodelay_error"} :
         /\ dialed' = IF outcome = "dial_error" THEN 0 ELSE calls
         /\ open' = IF outcome = "dial_error" THEN open ELSE open \cup {calls}
         /\ conn' = IF outcome = "ok" THEN calls ELSE 0
         /\ IF outcome = "ok"
            THEN pc' = "writeConnectionHeader" /\ err' = err
            ELSE Return(<< outcome >>)
    /\ io' = Append(io, Fresh("dial", << >>))
    /\ UNCHANGED << calls, ClientId, userTokens, tokenChanges, authProtocol,
                    decision, wire, env, rpcResponseHeaderProto, response >>
    /\ UNCHANGED otherVars

\* getConnection chooses the auth protocol and writes the connection
\* header; k writes complete before one fails (k = 4: none fails).
writeConnectionHeader ==
    /\ pc = "writeConnectionHeader"
    /\ LET auth == IF findUsableTokenForService(userTokens, ServerAddress)
                   THEN AUTH_PROTOCOL_SASL ELSE AUTH_PROTOCOL_NONE
       IN /\ authProtocol' = auth
          /\ decision' = << userTokens >>
          /\ io' = Append(io, Fresh("connection_header", << >>))
          /\ \E k \in 0..4 :
               /\ wire' = wire \o Take(ConnectionHeaderWrites(auth), k)
               /\ env' = [env EXCEPT !.hdr = << k >>]
               /\ IF k < 4
                  THEN Return(<< "write" >>) /\ conn' = 0
                  ELSE /\ pc' = IF auth = AUTH_PROTOCOL_SASL
                                THEN "sendNegotiate" ELSE "writeConnectionContext"
                       /\ err' = err
                       /\ conn' = conn
    /\ UNCHANGED << calls, ClientId, userTokens, tokenChanges, dialed, open,
                    rpcResponseHeaderProto, response >>
    /\ UNCHANGED otherVars

\* sendSaslMessage for the message of the given state, then continue at next.
sendSaslMessage(state, next) ==
    /\ \E k \in 0..5 :
         /\ wire' = wire \o Take(SaslWrites(state), k)
         /\ env' = IF state = "NEGOTIATE" THEN [env EXCEPT !.neg = << k >>]
                    ELSE [env EXCEPT !.init = << k >>]
         /\ IF k < 5
            THEN Return(<< "write" >>) /\ conn' = 0
            ELSE pc' = next /\ err' = err /\ conn' = conn
    /\ io' = Append(io, Headed(Fresh("sasl_send", << >>), saslRpcHeaderProto))
    /\ UNCHANGED << calls, ClientId, userTokens, tokenChanges, dialed, open,
                    authProtocol, decision, rpcResponseHeaderProto, response >>
    /\ UNCHANGED otherVars

\* negotiateSimpleTokenAuth: the NEGOTIATE request.
sendNegotiate ==
    /\ pc = "sendNegotiate"
    /\ sendSaslMessage("NEGOTIATE", "receiveNegotiate")

\* Mutant: a reply without mechanisms is let through to INITIATE.
negotiateVerdict_emptyListAccepted(r, digest) ==
    IF r.kind = "err" THEN r.err
    ELSE IF Len(r.msg.auths) <= 0 THEN NilErr
    ELSE IF ~(r.msg.auths[1].method = "TOKEN" /\ r.msg.auths[1].mechanism = "DIGEST-MD5")
         THEN << "yarnauth only supports TOKEN/DIGEST-MD5 auth!" >>
    ELSE IF digest = "err" THEN << "digest" >>
    ELSE NilErr

\* Mutant: TOKEN/DIGEST-MD5 is looked for in the whole list.
negotiateVerdict_anyPosition(r, digest) ==
    IF r.kind = "err" THEN r.err
    ELSE IF Len(r.msg.auths) <= 0 THEN << "No supported auth mechanisms!" >>
    ELSE IF ~(\E i \in DOMAIN r.msg.auths :
                 r.msg.auths[i].method = "TOKEN" /\ r.msg.auths[i].mechanism = "DIGEST-MD5")
         THEN << "yarnauth only supports TOKEN/DIGEST-MD5 auth!" >>
    ELSE IF digest = "err" THEN << "digest" >>
    ELSE NilErr

\* Mutant: an error of the digest computation is dropped.
negotiateVerdict_digestErrorDropped(r, digest) ==
    IF r.kind = "err" THEN r.err
    ELSE IF Len(r.msg.auths) <= 0 THEN << "No supported auth mechanisms!" >>
    ELSE IF ~(r.msg.auths[1].method = "TOKEN" /\ r.msg.auths[1].mechanism = "DIGEST-MD5")
         THEN << "yarnauth only supports TOKEN/DIGEST-MD5 auth!" >>
    ELSE NilErr

\* negotiateSimpleTokenAuth between the reply to NEGOTIATE and the INITIATE
\* request: the error it returns, NilErr to go on.  r is the outcome of
\* receiveSaslMessage, not a panic; digest the outcome of
\* GetDigestMD5ChallengeResponse.
negotiateVerdict(r, digest) ==
    IF r.kind = "err" THEN r.err
    ELSE IF Len(r.msg.auths) <= 0 THEN << "No supported auth mechanisms!" >>
    ELSE IF ~(r.msg.auths[1].method = "TOKEN" /\ r.msg.auths[1].mechanism = "DIGEST-MD5")
         THEN << "yarnauth only supports TOKEN/DIGEST-MD5 auth!" >>
    ELSE IF digest = "err" THEN << "digest" >>
    ELSE NilErr

\* negotiateSimpleTokenAuth: the reply to NEGOTIATE, the choice of the
\* mechanism and the digest response.
receiveNegotiate ==
    /\ pc = "receiveNegotiate"
    /\ \E reply \in SaslReplies, digest \in {"ok", "err"} :
         LET r == receiveSaslMessage(ClientId, reply)
             auths == r.msg.auths
             digestAsked == /\ r.kind = "ok"
                            /\ Len(auths) > 0
                            /\ auths[1].method = "TOKEN"
                            /\ auths[1].mechanism = "DIGEST-MD5"
         IN /\ io' = Append(io, Fresh("sasl_receive", Consumed(reply, saslBodyRead(reply))))
            /\ env' = [env EXCEPT !.negReply = << reply >>,
                                  !.digest = IF digestAsked THEN << digest >> ELSE << >>]
            /\ IF r.kind = "panic" THEN Panic /\ conn' = conn
               ELSE LET e == negotiateVerdict(r, digest)
                    IN IF e # NilErr THEN Return(e) /\ conn' = 0
                       ELSE pc' = "sendInitiate" /\ err' = err /\ conn' = conn
    /\ UNCHANGED << calls, ClientId, userTokens, tokenChanges, dialed, open,
                    authProtocol, decision, wire, rpcResponseHeaderProto, response >>
    /\ UNCHANGED otherVars

\* negotiateSimpleTokenAuth: the INITIATE request.
sendInitiate ==
    /\ pc = "sendInitiate"
    /\ sendSaslMessage("INITIATE", "receiveInitiate")

\* Mutant: the state of the reply to INITIATE is not looked at.
initiateVerdict_stateUnchecked(r) ==
    IF r.kind = "err" THEN r.err ELSE NilErr

\* negotiateSimpleTokenAuth after the INITIATE request: the error it
\* returns, NilErr for success.
initiateVerdict(r) ==
    IF r.kind = "err" THEN r.err
    ELSE IF r.msg.state # "SUCCESS" THEN << "expected SASL SUCCESS response!" >>
    ELSE NilErr

\* negotiateSimpleTokenAuth: the reply to INITIATE must be SUCCESS.
receiveInitiate ==
    /\ pc = "receiveInitiate"
    /\ \E reply \in SaslReplies :
         LET r == receiveSaslMessage(ClientId, reply)
         IN /\ io' = Append(io, Fresh("sasl_receive", Consumed(reply, saslBodyRead(reply))))
            /\ env' = [env EXCEPT !.initReply = << reply >>]
            /\ IF r.kind = "panic" THEN Panic /\ conn' = conn
               ELSE LET e == initiateVerdict(r)
                    IN IF e # NilErr THEN Return(e) /\ conn' = 0
                       ELSE pc' = "writeConnectionContext" /\ err' = err /\ conn' = conn
    /\ UNCHANGED << calls, ClientId, userTokens, tokenChanges, dialed, open,
                    authProtocol, decision, wire, rpcResponseHeaderProto, response >>
    /\ UNCHANGED otherVars

\* Mutant: getConnection drops the error of writeConnectionContext.
writeConnectionContext_errorDropped ==
    /\ pc = "writeConnectionContext"
    /\ \E k \in 0..5, ugi \in {"ok", "err"} :
         /\ wire' = wire \o Take(ConnectionContextWrites, k)
         /\ env' = [env EXCEPT !.ctx = << k >>, !.ugi = << ugi >>]
         /\ io' = Append(io, Headed(Fresh("connection_context", << >>),
                                    connectionContextHeader(ClientId, authProtocol)))
         /\ pc' = "sendRequest" /\ err' = err /\ conn' = conn
    /\ UNCHANGED << calls, ClientId, userTokens, tokenChanges, dialed, open,
                    authProtocol, decision, rpcResponseHeaderProto, response >>
    /\ UNCHANGED otherVars

\* writeConnectionContext: the frame of the connection context.
writeConnectionContext ==
    /\ pc = "writeConnectionContext"
    /\ \E k \in 0..5, ugi \in {"ok", "err"} :
         /\ wire' = wire \o Take(ConnectionContextWrites, k)
         /\ env' = [env EXCEPT !.ctx = << k >>, !.ugi = << ugi >>]
         /\ io' = Append(io, Headed(Fresh("connection_context", << >>),
                                    connectionContextHeader(ClientId, authProtocol)))
         /\ IF k < 5
            THEN Return(<< "write" >>) /\ conn' = 0
            ELSE pc' = "sendRequest" /\ err' = err /\ conn' = conn
    /\ UNCHANGED << calls, ClientId, userTokens, tokenChanges, dialed, open,
                    authProtocol, decision, rpcResponseHeaderProto, response >>
    /\ UNCHANGED otherVars

\* The request of the caller's n-th Call: the payloads in turn.
Request(n) == ((n - 1) % Len(PayloadMsgs)) + 1

\* Mutant: a failed write of the request is tried once more.
sendRequest_retried ==
    /\ pc = "sendRequest"
    /\ \E k \in 0..7 :
         /\ wire' = wire \o Take(RequestWrites, k)
         /\ env' = [env EXCEPT !.req = << k >>, !.param = << Request(calls) >>]
         /\ io' = Append(io, Headed(Fresh("rpc_request", << >>), rpcReqHeaderProto(ClientId)))
         /\ IF k < 7
            THEN IF \A i \in DOMAIN io : io[i].phase # "rpc_request"
                 THEN pc' = "sendRequest" /\ err' = err
                 ELSE Return(<< "write" >>)
            ELSE pc' = "readResponse" /\ err' = err
    /\ UNCHANGED << calls, ClientId, userTokens, tokenChanges, dialed, conn, open,
                    authProtocol, decision, rpcResponseHeaderProto, response >>
    /\ UNCHANGED otherVars

\* sendRequest: the frame of the call; env.param is the message of the
\* caller that is marshalled into the param part.
sendRequest ==
    /\ pc = "sendRequest"
    /\ \E k \in 0..7 :
         /\ wire' = wire \o Take(RequestWrites, k)
         /\ env' = [env EXCEPT !.req = << k >>, !.param = << Request(calls) >>]
         /\ io' = Append(io, Headed(Fresh("rpc_request", << >>), rpcReqHeaderProto(ClientId)))
         /\ IF k < 7 THEN Return(<< "write" >>) ELSE pc' = "readResponse" /\ err' = err
    /\ UNCHANGED << calls, ClientId, userTokens, tokenChanges, dialed, conn, open,
                    authProtocol, decision, rpcResponseHeaderProto, response >>
    /\ UNCHANGED otherVars

\* Call reads the response, closes the connection and returns.
readResponseAndClose ==
    /\ pc = "readResponse"
    /\ \E reply \in RpcReplies, grow \in BOOLEAN :
         LET r == readResponse(ClientId, reply, response, grow)
         IN /\ env' = [env EXCEPT !.resp = << reply >>]
            /\ io' = Append(io, Inherited("rpc_response", Consumed(reply, rpcBodyRead(reply))))
            /\ rpcResponseHeaderProto' = r.hdr
            /\ response' = r.response
            /\ IF r.kind = "panic"
               THEN Panic /\ open' = open
               ELSE Return(r.err) /\ open' = open \ {conn}
    /\ UNCHANGED << calls, ClientId, userTokens, tokenChanges, dialed, conn,
                    authProtocol, decision, wire >>
    /\ UNCHANGED otherVars

\* Another goroutine changes the tokens of the current user.
SetUserTokens ==
    /\ tokenChanges < MaxTokenChanges
    /\ tokenChanges' = tokenChanges + 1
    /\ userTokens' \in TokenStores \ {userTokens}
    /\ UNCHANGED << pc, calls, ClientId, dialed, conn, open, authProtocol,
                    decision, wire, env, rpcResponseHeaderProto, response, err, io >>
    /\ UNCHANGED otherVars

Next ==
    \/ Call
    \/ setupConnection
    \/ writeConnectionHeader
    \/ sendNegotiate
    \/ receiveNegotiate
    \/ sendInitiate
    \/ receiveInitiate
    \/ writeConnectionContext
    \/ sendRequest
    \/ readResponseAndClose
    \/ SetUserTokens

Spec == Init /\ [][Next]_vars

\* ------------------------------------------------------------------------
\* Writing a frame: the total length and the delimited parts
\* ------------------------------------------------------------------------
\* No Call is running.
CallIdle ==
    /\ pc = "idle"
    /\ calls = 0
    /\ ClientId = IdA
    /\ userTokens = Store("absent", "absent")
    /\ tokenChanges = 0
    /\ dialed = 0
    /\ conn = 0
    /\ open = {}
    /\ authProtocol = "unset"
    /\ decision = << >>
    /\ wire = << >>
    /\ env = NoEnv
    /\ rpcResponseHeaderProto = << >>
    /\ response = ResponseTemplate
    /\ err = NilErr
    /\ io = << >>

\* The lengths a marshalled part can have: the ends of the size classes of
\* the varint.
PartLengths ==
    {0, 1} \cup { Pow128(c) - 1 : c \in 1..MaxSizeClass }
           \cup { Pow128(c) : c \in 1..MaxSizeClass }

\* The number of delimited parts of each frame the client writes.
FrameParts == [rpc_request |-> 3, connection_context |-> 2, sasl |-> 2]

\* The frames to write: the kind and the lengths of the marshalled parts.
Frames ==
    UNION { { [kind |-> kind, parts |-> parts, next |-> 0, field |-> << >>, after |-> 0] :
                parts \in [1..FrameParts[kind] -> PartLengths] } :
            kind \in DOMAIN FrameParts }

\* totalLength := len(a) + sizeVarint(len(a)) + len(b) + sizeVarint(len(b)) ...
RECURSIVE totalLength(_)
totalLength(parts) ==
    IF parts = << >> THEN 0
    ELSE Head(parts) + sizeVarint(Head(parts)) + totalLength(Tail(parts))

FrameInit ==
    /\ CallIdle
    /\ sending \in Frames
    /\ conns = NoConns
    /\ cgroup = NoCgroup
    /\ server = NoServer

\* conn.con.Write(totalLengthBytes) of sendRequest, writeConnectionContext
\* and sendSaslMessage: the 4-byte field carries int32(totalLength).  A write
\* that fails ends the frame.
writeTotalLength ==
    /\ sending.kind # "none"
    /\ sending.next = 0
    /\ \E ok \in BOOLEAN :
         sending' = IF ok
                    THEN [sending EXCEPT !.field = << totalLength(sending.parts) >>,
                                         !.next = 1]
                    ELSE [sending EXCEPT !.next = -1]
    /\ UNCHANGED << callVars, server, conns, cgroup >>

\* writeDelimitedBytes(conn, data): the varint of len(data), then data.
writeDelimitedBytes ==
    /\ sending.next \in 1..Len(sending.parts)
    /\ LET data == sending.parts[sending.next]
       IN \E ok \in BOOLEAN :
            sending' = IF ok
                       THEN [sending EXCEPT !.after = @ + Len(AppendVarint(data)) + data,
                                            !.next = @ + 1]
                       ELSE [sending EXCEPT !.after = @ + Len(AppendVarint(data)),
                                            !.next = -1]
    /\ UNCHANGED << callVars, server, conns, cgroup >>

FrameNext ==
    \/ writeTotalLength
    \/ writeDelimitedBytes

FrameSpec == FrameInit /\ [][FrameNext]_vars

\* ------------------------------------------------------------------------
\* Delimited messages written and read back
\* ------------------------------------------------------------------------
\* The payloads to write: a message and its marshalled bytes, short (1
\* byte), long (128 bytes, a varint of two bytes) or empty (no bytes).
Payloads ==
    { [msg |-> PayloadMsgs[c], bytes |-> Marshal(c, n)] :
        c \in DOMAIN PayloadMsgs, n \in {0, 127} }
        \cup { [msg |-> ResponseEmpty, bytes |-> << >>] }

\* sending.parts: the payloads; sending.buf: the bytes written; sending.next:
\* the payload to write next; sending.off: where the next readDelimited
\* starts; sending.read: what the calls of readDelimited returned.
TripInit ==
    /\ CallIdle
    /\ sending \in { [kind |-> "delimited", parts |-> parts, next |-> 1,
                       buf |-> << >>, off |-> 0, read |-> << >>] :
                        parts \in UNION { [1..n -> Payloads] : n \in 0..MaxPayloads } }
    /\ conns = NoConns
    /\ cgroup = NoCgroup
    /\ server = NoServer

\* writeDelimitedBytes(conn, data) with the bytes kept: the varint of
\* len(data), then data.
writeDelimitedBytesTo ==
    /\ sending.kind = "delimited"
    /\ sending.next \in 1..Len(sending.parts)
    /\ LET data == sending.parts[sending.next].bytes
       IN sending' = [sending EXCEPT !.buf = @ \o AppendVarint(Len(data)) \o data,
                                     !.next = @ + 1]
    /\ UNCHANGED << callVars, server, conns, cgroup >>

\* readDelimited(responseBytes[off:], msg) on what was written, as
\* readResponse calls it: each call starts where the one before ended.
readDelimitedFrom ==
    /\ sending.kind = "delimited"
    /\ sending.next > Len(sending.parts)
    /\ Len(sending.read) < Len(sending.parts)
    /\ sending.off >= 0
    /\ LET r == readDelimited(Slice(sending.buf, sending.off, Len(sending.buf)),
                              PayloadMsgs, << ResponseEmpty >>)
       IN sending' = [sending EXCEPT
              !.read = Append(@, r),
              !.off = IF r.kind = "ok" THEN @ + r.off ELSE -1]
    /\ UNCHANGED << callVars, server, conns, cgroup >>

TripNext ==
    \/ writeDelimitedBytesTo
    \/ readDelimitedFrom

TripSpec == TripInit /\ [][TripNext]_vars

\* ------------------------------------------------------------------------
\* Calls running concurrently on one Client
\* ------------------------------------------------------------------------
Threads == 1..MaxThreads

\* conns.t[th]: where goroutine th is in Call, the Call it runs and its conn
\* (0: nil); conns.calls: the Calls started; conns.opener[c]: the Call that
\* dialed connection c; conns.open: the connections not closed;
\* conns.used: which Call did what on which connection.
Resting == [pc |-> "idle", call |-> 0, con |-> 0]

Use(con, call, op) == [con |-> con, call |-> call, op |-> op]

ConcInit ==
    /\ CallIdle
    /\ sending = NoFrame
    /\ conns = [t |-> [th \in Threads |-> Resting], calls |-> 0,
                opener |-> << >>, open |-> {}, used |-> {}]
    /\ cgroup = NoCgroup
    /\ server = NoServer

\* Mutant: the connection pool that is commented out in the source: a
\* connection of the same connection id is taken from the pool.
getConnection_pooled(pool, fresh) ==
    IF pool # {} THEN CHOOSE c \in pool : TRUE ELSE fresh

\* getConnection: the connection a Call works on, out of the connections
\* opened before and the one setupConnection dials now.
getConnection(pool, fresh) == fresh

\* Client.Call is entered by goroutine th.
CallOf(th) ==
    /\ conns.t[th].pc \in {"idle", "returned"}
    /\ conns.calls < MaxCalls
    /\ conns' = [conns EXCEPT !.calls = @ + 1,
                              !.t[th] = [pc |-> "getConnection", call |-> conns.calls + 1,
                                         con |-> 0]]
    /\ UNCHANGED << callVars, server, sending, cgroup >>

\* getConnection -> setupConnection: the dial of goroutine th.
setupConnectionOf(th) ==
    /\ conns.t[th].pc = "getConnection"
    /\ \E ok \in BOOLEAN :
         LET fresh == Len(conns.opener) + 1
             c == getConnection(DOMAIN conns.opener, fresh)
         IN IF ~ok
            THEN conns' = [conns EXCEPT !.t[th].pc = "returned"]
            ELSE conns' = [conns EXCEPT
                     !.opener = IF c = fresh THEN Append(@, conns.t[th].call) ELSE @,
                     !.open = @ \cup {c},
                     !.t[th].con = c,
                     !.t[th].pc = "handshake"]
    /\ UNCHANGED << callVars, server, sending, cgroup >>

\* getConnection after the dial: the connection header, the SASL
\* negotiation and the connection context on the Call's connection.
handshakeOf(th) ==
    /\ conns.t[th].pc = "handshake"
    /\ \E ok \in BOOLEAN :
         conns' = [conns EXCEPT
             !.used = @ \cup {Use(conns.t[th].con, conns.t[th].call, "handshake")},
             !.t[th].pc = IF ok THEN "sendRequest" ELSE "returned",
             !.t[th].con = IF ok THEN @ ELSE 0]
    /\ UNCHANGED << callVars, server, sending, cgroup >>

\* sendRequest(c, conn, &rpcCall) of goroutine th.
sendRequestOf(th) ==
    /\ conns.t[th].pc = "sendRequest"
    /\ \E ok \in BOOLEAN :
         conns' = [conns EXCEPT
             !.used = @ \cup {Use(conns.t[th].con, conns.t[th].call, "request")},
             !.t[th].pc = IF ok THEN "readResponse" ELSE "returned"]
    /\ UNCHANGED << callVars, server, sending, cgroup >>

\* c.readResponse(conn, &rpcCall) and conn.con.Close() of goroutine th.
readResponseOf(th) ==
    /\ conns.t[th].pc = "readResponse"
    /\ conns' = [conns EXCEPT
           !.used = @ \cup {Use(conns.t[th].con, conns.t[th].call, "response"),
                            Use(conns.t[th].con, conns.t[th].call, "close")},
           !.open = @ \ {conns.t[th].con},
           !.t[th].pc = "returned"]
    /\ UNCHANGED << callVars, server, sending, cgroup >>

ConcNext ==
    \E th \in Threads :
        \/ CallOf(th)
        \/ setupConnectionOf(th)
        \/ handshakeOf(th)
        \/ sendRequestOf(th)
        \/ readResponseOf(th)

ConcSpec == ConcInit /\ [][ConcNext]_vars

\* ------------------------------------------------------------------------
\* The node manager operator: the CPU and the memory cgroup directories
\* ------------------------------------------------------------------------
CgroupCPUDir == "cpu"
CgroupMemDir == "memory"

\* The name of a directory: what it begins with and the rest.
DirName(stem, tail) == [stem |-> stem, tail |-> tail]

ContainerNames == { DirName("container_", i) : i \in 1..MaxContainers }

DirNames == ContainerNames \cup { DirName("hadoop-yarn", 0) }

\* strings.HasPrefix(basename, prefix)
HasPrefix(basename, prefix) == basename.stem = prefix

\* filepath.Join(n.CgroupRoot, dir, n.CgroupPath, basename) and filepath.Base
Join(dir, basename) == [dir |-> dir, base |-> basename]

Base(path) == path.base

\* subDirFunc(dir): the paths of the directories directly under dir.
subDirFunc(dir, names) == { Join(dir, name) : name \in names }

\* utils.DiffMap(m1, m2): the keys only m1 has and the keys only m2 has.
DiffMap(m1, m2) == [more |-> m1 \ m2, less |-> m2 \ m1]

\* createMemoryCgroup(fileName): the directories under the memory cgroup
\* path afterwards.  os.Mkdir fails for a directory that exists, and for
\* the names in broken; the files written into the new directory do not
\* change which directories there are.
createMemoryCgroup(mem, fileName, broken) ==
    LET basename == Base(fileName)
    IN IF ~HasPrefix(basename, "container_") THEN mem
       ELSE IF basename \in mem \/ basename \in broken THEN mem
       ELSE mem \cup {basename}

\* Mutant: the name is not looked at.
removeMemoryCgroup_anyName(mem, fileName, broken) ==
    LET basename == Base(fileName)
    IN IF basename \in broken THEN mem
       ELSE mem \ {basename}

\* removeMemoryCgroup(fileName): os.RemoveAll of the memory directory of
\* that name; it fails for the names in broken.
removeMemoryCgroup(mem, fileName, broken) ==
    LET basename == Base(fileName)
    IN IF ~HasPrefix(basename, "container_") THEN mem
       ELSE IF basename \in broken THEN mem
       ELSE mem \ {basename}

\* for path := range toCreate { n.createMemoryCgroup(path) }
RECURSIVE createAll(_, _, _)
createAll(mem, toCreate, broken) ==
    IF toCreate = {} THEN mem
    ELSE LET path == CHOOSE p \in toCreate : TRUE
         IN createAll(createMemoryCgroup(mem, path, broken), toCreate \ {path}, broken)

\* for path := range toDelete { n.removeMemoryCgroup(path) }
RECURSIVE removeAll(_, _, _)
removeAll(mem, toDelete, broken) ==
    IF toDelete = {} THEN mem
    ELSE LET path == CHOOSE p \in toDelete : TRUE
         IN removeAll(removeMemoryCgroup(mem, path, broken), toDelete \ {path}, broken)

\* The process lists of the CPU cgroup path
\* What a process list file holds: the pids, in the order listed.
ProcLists == { << >>, << 0 >>, << 1, 7 >>, << 7, 1 >> }

\* system.CommonFileRead of a process list file: the error and the bytes.
Read(failed, read) == [err |-> failed, read |-> read]

\* The process list file of a directory: read, or not readable.
ProcFiles == { Read(FALSE, read) : read \in ProcLists } \cup { Read(TRUE, << >>) }

\* A directory directly under the CPU cgroup path: its process list, and
\* whether it holds a directory of its own, one with an empty process list.
CpuDirs == [procs : ProcFiles, below : BOOLEAN]

\* The directories directly under the CPU cgroup path, by name.
CpuTrees == UNION { [names -> CpuDirs] : names \in SUBSET ContainerNames }

\* The CPU cgroup path, a directory directly under it, the one below that.
cpuPath == << >>
Child(name) == << name >>
Below(name) == << name, "sub" >>

\* os.FileInfo of a path and its process list file.
FileInfo(isDir, procs) == [isDir |-> isDir, procs |-> procs]

\* What the function handed to filepath.Walk returns, and whether it
\* called os.RemoveAll(path).
WalkFn(ret, called) == [ret |-> ret, called |-> called]

\* Mutant: a directory that is kept is walked into.
walkFn_descends(path, info) ==
    IF info.isDir /\ path # cpuPath
    THEN IF info.procs.err THEN WalkFn("nil", FALSE)
         ELSE IF Len(info.procs.read) # 0 THEN WalkFn("nil", FALSE)
         ELSE WalkFn("SkipDir", TRUE)
    ELSE WalkFn("nil", FALSE)

\* The function syncNoneProcCgroup hands to filepath.Walk, called without
\* an error.
walkFn(path, info) ==
    IF info.isDir /\ path # cpuPath
    THEN IF info.procs.err THEN WalkFn("SkipDir", FALSE)
         ELSE IF Len(info.procs.read) # 0 THEN WalkFn("SkipDir", FALSE)
         ELSE WalkFn("SkipDir", TRUE)
    ELSE WalkFn("nil", FALSE)

\* filepath.Walk below one directory directly under the CPU cgroup path:
\* the paths os.RemoveAll was called on.  The directory below is visited
\* only if the function returned nil for the directory itself.
WalkChild(tree, name) ==
    LET r == walkFn(Child(name), FileInfo(TRUE, tree[name].procs))
        r2 == walkFn(Below(name), FileInfo(TRUE, Read(FALSE, << >>)))
    IN (IF r.called THEN {Child(name)} ELSE {})
         \cup (IF r.ret = "nil" /\ ~r.called /\ tree[name].below /\ r2.called
               THEN {Below(name)} ELSE {})

\* syncNoneProcCgroup: the paths os.RemoveAll was called on.  When the
\* CPU cgroup path cannot be walked the function is called with the
\* error and returns it; for the path itself and for the files in it the
\* function returns nil.
RemoveAllCalls(tree, exists) ==
    IF ~exists THEN {}
    ELSE LET root == walkFn(cpuPath, FileInfo(TRUE, Read(FALSE, << >>)))
         IN (IF root.called THEN {cpuPath} ELSE {})
              \cup UNION { WalkChild(tree, name) : name \in DOMAIN tree }

\* os.RemoveAll of the paths in targets; it fails for the names in broken.
\* Removing a directory removes what is below it.
RemoveAll(tree, targets, broken) ==
    LET gone == { name \in DOMAIN tree : Child(name) \in targets /\ name \notin broken }
    IN IF cpuPath \in targets THEN << >>
       ELSE [name \in DOMAIN tree \ gone |->
               [tree[name] EXCEPT !.below =
                   @ /\ ~(Below(name) \in targets /\ name \notin broken)]]

syncNoneProcCgroup(tree, exists, broken) ==
    RemoveAll(tree, RemoveAllCalls(tree, exists), broken)

\* cgroup.cpu, cgroup.mem: the names of the directories directly under the
\* CPU and the memory cgroup path; cgroup.last: the last operation and
\* whether all its file operations were let through.
Last(op, ok) == [op |-> op, ok |-> ok]

NmInit ==
    /\ CallIdle
    /\ sending = NoFrame
    /\ conns = NoConns
    /\ server = NoServer
    /\ cgroup \in { [cpu |-> cpu, mem |-> mem, last |-> Last("start", TRUE)] :
                       cpu \in SUBSET DirNames, mem \in SUBSET DirNames }

\* The ticker of syncMemoryCgroup fires: syncNoneProcCgroup, which leaves
\* the directories kept under the CPU path, then syncAllCgroup.
syncAllCgroup ==
    /\ \E broken \in SUBSET ContainerNames, tree \in [cgroup.cpu -> { dir \in CpuDirs : ~dir.below }] :
         LET kept == DOMAIN syncNoneProcCgroup(tree, TRUE, broken)
             cpuList == subDirFunc(CgroupCPUDir, kept)
             memList == subDirFunc(CgroupMemDir, cgroup.mem)
             diff == DiffMap(cpuList, memList)
             created == createAll(cgroup.mem, diff.more, broken)
             deleted == removeAll(created, diff.less, broken)
         IN cgroup' = [cgroup EXCEPT !.cpu = kept,
                                     !.mem = deleted,
                                     !.last = Last("syncAllCgroup", broken = {})]
    /\ UNCHANGED << callVars, server, sending, conns >>

\* The watcher of the CPU directory reports pleg.DirCreated for a name.
DirCreated ==
    /\ \E name \in cgroup.cpu, broken \in SUBSET ContainerNames :
         cgroup' = [cgroup EXCEPT
             !.mem = createMemoryCgroup(@, Join(CgroupCPUDir, name), broken),
             !.last = Last("createMemoryCgroup", broken = {})]
    /\ UNCHANGED << callVars, server, sending, conns >>

\* The watcher of the CPU directory reports pleg.DirRemoved for a name.
DirRemoved ==
    /\ \E name \in DirNames \ cgroup.cpu, broken \in SUBSET ContainerNames :
         cgroup' = [cgroup EXCEPT
             !.mem = removeMemoryCgroup(@, Join(CgroupCPUDir, name), broken),
             !.last = Last("removeMemoryCgroup", broken = {})]
    /\ UNCHANGED << callVars, server, sending, conns >>

\* The node manager creates or removes the cgroup directory of a container
\* under the CPU path.
NodeManager ==
    /\ \E name \in DirNames :
         cgroup' = [cgroup EXCEPT
             !.cpu = IF name \in @ THEN @ \ {name} ELSE @ \cup {name},
             !.last = Last("NodeManager", TRUE)]
    /\ UNCHANGED << callVars, server, sending, conns >>

NmNext ==
    \/ syncAllCgroup
    \/ DirCreated
    \/ DirRemoved
    \/ NodeManager

NmSpec == NmInit /\ [][NmNext]_vars

\* ------------------------------------------------------------------------
\* The node manager operator: signals and the CPU cgroup path
\* ------------------------------------------------------------------------
\* utils.GetPids(containerCgroupPath): the pids the process list of the
\* container's CPU cgroup lists, or an error.
GetPids(tree, containerID) ==
    IF containerID \notin DOMAIN tree \/ tree[containerID].procs.err
    THEN [err |-> TRUE, pids |-> << >>]
    ELSE [err |-> FALSE, pids |-> tree[containerID].procs.read]

getProcessGroupID(tree, containerID) ==
    LET got == GetPids(tree, containerID)
    IN IF got.err THEN 0
       ELSE IF Len(got.pids) = 0 THEN 0
       ELSE got.pids[1]

SIGKILL == "SIGKILL"

\* syscall.Kill(pid, sig)
Kill(pid, sig) == [pid |-> pid, sig |-> sig]

\* cgroup.tree: the directories under the CPU cgroup path; cgroup.exists:
\* whether that path can be walked; cgroup.signals: the calls of
\* syscall.Kill so far; cgroup.last: the last operation, its argument, the
\* tree and the signals before it, the calls of os.RemoveAll it made and
\* whether it returned an error.
Did(op, arg, targets, failed) ==
    [op |-> op, arg |-> arg, tree |-> cgroup.tree, signals |-> cgroup.signals,
     calls |-> targets, failed |-> failed]

ProcInit ==
    /\ CallIdle
    /\ sending = NoFrame
    /\ conns = NoConns
    /\ server = NoServer
    /\ cgroup \in { [tree |-> tree, exists |-> exists, signals |-> << >>,
                      last |-> [op |-> "start", arg |-> << >>, tree |-> tree,
                                signals |-> << >>, calls |-> {}, failed |-> FALSE]] :
                       tree \in CpuTrees, exists \in BOOLEAN }
    /\ ~cgroup.exists => cgroup.tree = << >>

\* The ticker of syncMemoryCgroup fires: syncNoneProcCgroup.
NoneProcTicker ==
    /\ \E broken \in SUBSET ContainerNames :
         cgroup' = [cgroup EXCEPT
             !.tree = syncNoneProcCgroup(@, cgroup.exists, broken),
             !.last = Did("syncNoneProcCgroup", broken,
                           RemoveAllCalls(cgroup.tree, cgroup.exists), FALSE)]
    /\ UNCHANGED << callVars, server, sending, conns >>

\* Mutant: a process group id of 1 is let through.
KillContainer_initAllowed ==
    /\ Len(cgroup.signals) < MaxKills
    /\ \E containerID \in DirNames, failed \in BOOLEAN :
         LET processGroupID == getProcessGroupID(cgroup.tree, containerID)
         IN IF processGroupID < 1
            THEN cgroup' = [cgroup EXCEPT !.last = Did("KillContainer", containerID, {}, TRUE)]
            ELSE cgroup' = [cgroup EXCEPT
                     !.signals = Append(@, Kill(-processGroupID, SIGKILL)),
                     !.last = Did("KillContainer", containerID, {}, failed)]
    /\ UNCHANGED << callVars, server, sending, conns >>

\* KillContainer(containerID); failed is whether syscall.Kill returned an
\* error.
KillContainer ==
    /\ Len(cgroup.signals) < MaxKills
    /\ \E containerID \in DirNames, failed \in BOOLEAN :
         LET processGroupID == getProcessGroupID(cgroup.tree, containerID)
         IN IF processGroupID <= 1
            THEN cgroup' = [cgroup EXCEPT !.last = Did("KillContainer", containerID, {}, TRUE)]
            ELSE cgroup' = [cgroup EXCEPT
                     !.signals = Append(@, Kill(-processGroupID, SIGKILL)),
                     !.last = Did("KillContainer", containerID, {}, failed)]
    /\ UNCHANGED << callVars, server, sending, conns >>

\* Processes of a container start or exit, or its process list becomes
\* unreadable.
Processes ==
    /\ \E name \in DOMAIN cgroup.tree, procs \in ProcFiles :
         /\ procs # cgroup.tree[name].procs
         /\ cgroup' = [cgroup EXCEPT !.tree[name].procs = procs,
                                     !.last = Did("Processes", name, {}, FALSE)]
    /\ UNCHANGED << callVars, server, sending, conns >>

ProcNext ==
    \/ NoneProcTicker
    \/ KillContainer
    \/ Processes

ProcSpec == ProcInit /\ [][ProcNext]_vars

\* ------------------------------------------------------------------------
\* YarnCopilotServer.Run
\* ------------------------------------------------------------------------
\* ctx.Done(): the channel of a context carries no values; it is closed
\* when the context is cancelled.
Done(ctx) == [queued |-> 0, closed |-> ctx = "cancelled"]

\* server.pc: where Run is; server.ctx: the context; server.file: whether
\* the socket file exists; server.listener: the listener of the socket;
\* server.serving: whether the goroutine of server.Serve runs;
\* server.shutdown: the calls of server.Shutdown; server.handled and
\* server.route: the requests handled and the route of the last one;
\* server.result: what Run returned.
ServerInit ==
    /\ CallIdle
    /\ sending = NoFrame
    /\ conns = NoConns
    /\ cgroup = NoCgroup
    /\ server \in { [pc |-> "Run", ctx |-> "live", file |-> file, listener |-> "none",
                      serving |-> FALSE, shutdown |-> 0, handled |-> 0,
                      route |-> "none", result |-> "none"] : file \in BOOLEAN }

\* Run up to net.Listen: the directory is made, a socket file that exists
\* is removed (errors ignored), and a failure to listen ends the process
\* with os.Exit(1).
Listen ==
    /\ server.pc = "Run"
    /\ \E removed \in BOOLEAN, listened \in BOOLEAN :
         LET stale == server.file /\ ~removed
         IN IF stale \/ ~listened
            THEN server' = [server EXCEPT !.pc = "exited"]
            ELSE server' = [server EXCEPT !.pc = "Serve", !.file = TRUE,
                                          !.listener = "open"]
    /\ UNCHANGED << callVars, sending, conns, cgroup >>

\* go func() { _ = server.Serve(listener) }()
Serve ==
    /\ server.pc = "Serve"
    /\ server' = [server EXCEPT !.pc = "range", !.serving = TRUE]
    /\ UNCHANGED << callVars, sending, conns, cgroup >>

\* for range ctx.Done() { ... }: a value received runs the body, which
\* calls server.Shutdown(ctx) and returns its error or goes round again;
\* a closed channel with nothing queued ends the loop.
rangeDone ==
    /\ server.pc = "range"
    /\ LET ch == Done(server.ctx)
       IN /\ ch.queued > 0 \/ ch.closed
          /\ IF ch.queued > 0
             THEN \E failed \in BOOLEAN :
                    server' = [server EXCEPT
                        !.shutdown = @ + 1,
                        !.listener = "closed",
                        !.serving = FALSE,
                        !.pc = IF failed THEN "return" ELSE "range",
                        !.result = IF failed THEN "err" ELSE @]
             ELSE server' = [server EXCEPT !.pc = "return",
                                           !.result = IF @ = "none" THEN "nil" ELSE @]
    /\ UNCHANGED << callVars, sending, conns, cgroup >>

\* Run returns: the deferred os.Remove(y.unixPath), its error ignored.
return ==
    /\ server.pc = "return"
    /\ \E removed \in BOOLEAN :
         server' = [server EXCEPT !.pc = "returned",
                                  !.file = IF removed THEN FALSE ELSE @]
    /\ UNCHANGED << callVars, sending, conns, cgroup >>

\* The context is cancelled.
Cancel ==
    /\ server.ctx = "live"
    /\ server' = [server EXCEPT !.ctx = "cancelled"]
    /\ UNCHANGED << callVars, sending, conns, cgroup >>

\* A client connects to the socket and the goroutine of server.Serve
\* handles its request, for one of the routes Run registered.
ServeHTTP ==
    /\ server.serving
    /\ server.listener = "open"
    /\ server.file
    /\ server.handled < MaxRequests
    /\ \E route \in { "/health", "/information", "/v1/container", "/v1/containers",
                      "/v1/killContainer", "/v1/killContainersByResource" } :
         server' = [server EXCEPT !.handled = @ + 1, !.route = route]
    /\ UNCHANGED << callVars, sending, conns, cgroup >>

RunStep ==
    \/ Listen
    \/ Serve
    \/ rangeDone
    \/ return

ServerNext ==
    \/ RunStep
    \/ Cancel
    \/ ServeHTTP

ServerSpec == ServerInit /\ [][ServerNext]_vars /\ WF_vars(RunStep)

\* ------------------------------------------------------------------------
\* Properties
\* ------------------------------------------------------------------------
Finished == pc \in {"returned", "panicked"}

Written(frame) == \E i \in DOMAIN wire : wire[i].frame = frame

WrittenSasl(state) == \E i \in DOMAIN wire : wire[i].frame = "sasl" /\ wire[i].val = state

AuthByteWritten(auth) ==
    \E i \in DOMAIN wire : wire[i].part = "AuthProtocol" /\ wire[i].val = auth

\* C1: when Call has returned, the TCP connection setupConnection opened
\* for it (env.hdr: getConnection went on to the connection header) is
\* closed.  The code closes it only after readResponse; every earlier
\* return leaves it open.
CallClosesConnection ==
    (pc = "returned" /\ dialed # 0 /\ env.hdr # << >>) => dialed \notin open

\* The header readResponse decoded carries a client id that is present and
\* differs from the client's.
ForeignClientId ==
    /\ rpcResponseHeaderProto # << >>
    /\ rpcResponseHeaderProto[1].clientId.present
    /\ rpcResponseHeaderProto[1].clientId.bytes # ClientId

\* C2: a response whose client id is present and differs from the client's
\* makes readResponse return an error and leaves the caller's message
\* undecoded.  The code compares 16 bytes only, and slices the field to 16
\* bytes whatever its length.
ForeignClientIdRejected ==
    ForeignClientId => (pc = "returned" /\ err # NilErr /\ response = ResponseTemplate)

\* The writes of a whole Call on its connection.
ExpectedWrites(auth) ==
    ConnectionHeaderWrites(auth)
        \o (IF auth = AUTH_PROTOCOL_SASL
            THEN SaslWrites("NEGOTIATE") \o SaslWrites("INITIATE") ELSE << >>)
        \o ConnectionContextWrites
        \o RequestWrites

\* C3: the writes on a connection are a prefix of: magic, version,
\* service class, auth byte, the SASL frames if SASL was chosen, the
\* connection context, the request; so no write of the request precedes
\* the last write of the connection context.
WriteOrder ==
    \E auth \in {AUTH_PROTOCOL_NONE, AUTH_PROTOCOL_SASL} :
        IsPrefix(wire, ExpectedWrites(auth))

WriteOrderWitness == wire = ExpectedWrites(AUTH_PROTOCOL_SASL)

\* The store holds a token keyed by the address.
TokenHeld(store, address) == store[address] \notin {"absent", NilToken}

AuthProtocolChosen ==
    /\ decision = << >> =>
         /\ authProtocol = "unset"
         /\ ~Written("connection_header")
         /\ env.neg = << >>
    /\ decision # << >> =>
         authProtocol = IF TokenHeld(decision[1], ServerAddress)
                        THEN AUTH_PROTOCOL_SASL ELSE AUTH_PROTOCOL_NONE
    /\ \A i \in DOMAIN wire : wire[i].part = "AuthProtocol" => wire[i].val = authProtocol
    /\ env.neg # << >> => AuthByteWritten(AUTH_PROTOCOL_SASL)
    /\ AuthByteWritten(AUTH_PROTOCOL_SASL) => (pc = "sendNegotiate" \/ env.neg # << >>)
    /\ AuthByteWritten(AUTH_PROTOCOL_NONE) => (env.neg = << >> /\ ~Written("sasl"))

\* C4: the auth byte is SASL exactly if the store held a token for the
\* server address when getConnection asked, the SASL negotiation runs
\* exactly if the SASL byte was written, and the mode stays as chosen until
\* the Call is over.
AuthProtocolDecidedOnce ==
    /\ []AuthProtocolChosen
    /\ [][(authProtocol # "unset" /\ calls' = calls) => authProtocol' = authProtocol]_vars

AuthProtocolDecidedOnceWitness ==
    /\ AuthByteWritten(AUTH_PROTOCOL_SASL)
    /\ ~TokenHeld(userTokens, ServerAddress)
    /\ Written("rpc_request")

\* A reply that arrived whole: the header and the message the server sent.
Whole(r) ==
    /\ r # << >>
    /\ ~r[1].ioerr
    /\ r[1].sent.h > 0
    /\ r[1].sent.m > 0
    /\ r[1].totalLength = Len(r[1].body)
    /\ r[1].first = 4
    /\ r[1].chunk >= Len(r[1].body)

SentHeader(r) == HeaderMsgs(ClientId)[r[1].sent.h]

SentSasl(r) == SaslMsgs[r[1].sent.m]

\* A SASL reply in which the server reports success for a SASL frame.
SaslAnswer(r) ==
    /\ Whole(r)
    /\ SentHeader(r).status = "SUCCESS"
    /\ SentHeader(r).clientId.present => SentHeader(r).clientId.bytes = << >>

SendFailed(k) == k # << >> /\ k[1] < 5

ReceiveFailed(r) ==
    r # << >> /\ (r[1].ioerr \/ (r[1].totalLength > 0 /\ r[1].body = << >>))

ServerErrorStatus(r) == Whole(r) /\ SentHeader(r).status # "SUCCESS"

ZeroMechanisms(r) == Whole(r) /\ Len(SentSasl(r).auths) = 0

FirstMechanismUnsupported(r) ==
    /\ Whole(r)
    /\ Len(SentSasl(r).auths) > 0
    /\ SentSasl(r).auths[1] # Auth("TOKEN", "DIGEST-MD5")

NotSuccess(r) == Whole(r) /\ SentSasl(r).state # "SUCCESS"

\* The error of each way the negotiation can fail, by what the server and
\* the digest computation did.
SaslFailures == {
    << SendFailed(env.neg), << "write" >> >>,
    << ReceiveFailed(env.negReply), << "io" >> >>,
    << ServerErrorStatus(env.negReply) /\ checkSaslRpcHeader(SentHeader(env.negReply)) = "ok",
       IF Whole(env.negReply) THEN errorDetails(SentHeader(env.negReply)) ELSE NilErr >>,
    << SaslAnswer(env.negReply) /\ ZeroMechanisms(env.negReply),
       << "No supported auth mechanisms!" >> >>,
    << SaslAnswer(env.negReply) /\ FirstMechanismUnsupported(env.negReply),
       << "yarnauth only supports TOKEN/DIGEST-MD5 auth!" >> >>,
    << env.digest = << "err" >>, << "digest" >> >>,
    << SendFailed(env.init), << "write" >> >>,
    << ReceiveFailed(env.initReply), << "io" >> >>,
    << ServerErrorStatus(env.initReply) /\ checkSaslRpcHeader(SentHeader(env.initReply)) = "ok",
       IF Whole(env.initReply) THEN errorDetails(SentHeader(env.initReply)) ELSE NilErr >>,
    << SaslAnswer(env.initReply) /\ NotSuccess(env.initReply),
       << "expected SASL SUCCESS response!" >> >> }

\* C5: when SASL was chosen and a step of the negotiation fails, Call
\* returns the error of that step and writes neither the connection context
\* nor the request.
SaslFailureIsFatal ==
    \A f \in SaslFailures :
        (authProtocol = AUTH_PROTOCOL_SASL /\ f[1]) =>
            /\ pc = "returned"
            /\ err = f[2]
            /\ err # NilErr
            /\ ~Written("connection_context")
            /\ ~Written("rpc_request")

SaslFailureIsFatalWitness ==
    /\ authProtocol = AUTH_PROTOCOL_SASL
    /\ env.digest = << "err" >>
    /\ pc = "returned"

\* C6: with SASL chosen, the connection context is written only after the
\* whole NEGOTIATE frame, a reply with mechanisms, the whole INITIATE frame
\* and a reply of state SUCCESS; a reply of another state ends the Call
\* with an error and without the connection context.
ContextAfterSaslSuccess ==
    /\ env.negReply # << >> => env.neg = << 5 >>
    /\ env.init # << >> => (SaslAnswer(env.negReply) /\ Len(SentSasl(env.negReply).auths) > 0)
    /\ env.initReply # << >> => env.init = << 5 >>
    /\ (authProtocol = AUTH_PROTOCOL_SASL /\ Written("connection_context")) =>
         /\ IsPrefix(Take(ExpectedWrites(AUTH_PROTOCOL_SASL), 14), wire)
         /\ SaslAnswer(env.initReply)
         /\ SentSasl(env.initReply).state = "SUCCESS"
    /\ (Whole(env.initReply) /\ SentSasl(env.initReply).state # "SUCCESS") =>
         (pc = "returned" /\ err # NilErr /\ ~Written("connection_context"))

ContextAfterSaslSuccessWitness ==
    /\ authProtocol = AUTH_PROTOCOL_SASL
    /\ env.ctx = << 5 >>

\* C7: a reply to NEGOTIATE that offers no mechanism ends the Call with an
\* error, and INITIATE is never written.
ZeroMechanismsFail ==
    ZeroMechanisms(env.negReply) =>
        /\ pc = "returned"
        /\ err # NilErr
        /\ SaslAnswer(env.negReply) => err = << "No supported auth mechanisms!" >>
        /\ ~WrittenSasl("INITIATE")
        /\ env.init = << >>

ZeroMechanismsFailWitness ==
    /\ ZeroMechanisms(env.negReply)
    /\ SaslAnswer(env.negReply)
    /\ pc = "returned"

\* C8: a reply to NEGOTIATE whose first mechanism is not TOKEN/DIGEST-MD5
\* ends the Call with an error, and INITIATE is never written, whatever the
\* later mechanisms are.
FirstMechanismOnly ==
    FirstMechanismUnsupported(env.negReply) =>
        /\ pc = "returned"
        /\ err # NilErr
        /\ SaslAnswer(env.negReply) => err = << "yarnauth only supports TOKEN/DIGEST-MD5 auth!" >>
        /\ ~WrittenSasl("INITIATE")
        /\ env.init = << >>

FirstMechanismOnlyWitness ==
    /\ FirstMechanismUnsupported(env.negReply)
    /\ SaslAnswer(env.negReply)
    /\ \E i \in DOMAIN SentSasl(env.negReply).auths :
         SentSasl(env.negReply).auths[i] = Auth("TOKEN", "DIGEST-MD5")
    /\ pc = "returned"

\* The header readResponse decoded reports a failure of the call.
ErrorStatus ==
    /\ rpcResponseHeaderProto # << >>
    /\ rpcResponseHeaderProto[1].status # "SUCCESS"

\* C9: when the status of the response header is not SUCCESS, Call returns
\* an error and the caller's message is as it was.  With a client id field
\* shorter than 16 bytes the code panics in checkRpcHeader instead.
ErrorStatusReturnsError ==
    ErrorStatus => (pc = "returned" /\ err # NilErr /\ response = ResponseTemplate)

OrPlaceholder(field, placeholder) == IF field # NilString THEN field ELSE placeholder

\* C10: the error of a non-SUCCESS header holds the status text, the
\* exception class name or its placeholder, the error message or its
\* placeholder and the error detail or its placeholder.  The code writes
\* the three optional fields one slot too low.
CompositeErrorHasFourParts ==
    (ErrorStatus /\ pc = "returned" /\ ~ForeignClientId) =>
        LET h == rpcResponseHeaderProto[1]
        IN /\ h.status \in Range(err)
           /\ OrPlaceholder(h.exceptionClassName, "ServerDidNotSetExceptionClassName")
                \in Range(err)
           /\ OrPlaceholder(h.errorMsg, "ServerDidNotSetErrorMsg") \in Range(err)
           /\ OrPlaceholder(h.errorDetail, "ServerDidNotSetErrorDetail") \in Range(err)

\* ------------------------------------------------------------------------
\* The response frame
\* ------------------------------------------------------------------------
\* The response the server sent arrived with its four length bytes in one
\* piece and says the frame is empty.
ZeroLengthResponse ==
    /\ env.resp # << >>
    /\ ~env.resp[1].ioerr
    /\ env.resp[1].first = 4
    /\ env.resp[1].totalLength = 0

\* C12: a response frame whose total length is exactly 0 makes readResponse
\* return a framing error, so the Call returns a non-nil error: it neither
\* crashes nor succeeds.
ZeroLengthResponseIsError ==
    ZeroLengthResponse => pc = "returned" /\ err # NilErr

\* The buffer readResponse hands to the first readDelimited, for a reply it
\* read in full.
ReadInFull(reply) ==
    /\ ~reply.ioerr
    /\ totalLengthRead(reply) >= 0
    /\ rpcBodyRead(reply) = totalLengthRead(reply)

ResponseBytes(reply) == Take(Unread(reply), totalLengthRead(reply))

\* The bytes at the start of b are not a varint: b is empty or ends in the
\* middle of one, or the continuation bytes do not terminate in 10 bytes.
InvalidVarint(b) == ConsumeVarint(b).n < 0

\* C20: when the bytes at the start of the buffer are not a valid varint
\* (an empty buffer or continuation bytes that do not terminate),
\* readDelimited returns a non-nil error and the caller aborts with it:
\* the Call returns that error.
InvalidVarintIsError ==
    (/\ env.resp # << >>
     /\ ReadInFull(env.resp[1])
     /\ InvalidVarint(ResponseBytes(env.resp[1])))
        => pc = "returned" /\ err # NilErr

\* ------------------------------------------------------------------------
\* Deadlines, retries and errors of a Call
\* ------------------------------------------------------------------------
\* C13: before every read and write phase (header write, each SASL send,
\* each SASL receive, context write, request send, response receive) the
\* client sets a fresh deadline: no phase runs under the deadline an
\* earlier phase armed.
FreshDeadlinePerPhase ==
    \A i \in DOMAIN io : io[i].armed = i

Count(phase) == Cardinality({ i \in DOMAIN io : io[i].phase = phase })

FrameStarts(frame, val) ==
    Cardinality({ i \in DOMAIN wire : wire[i] = W(frame, "totalLength", val) })

\* C15: a Call never retries: it dials at most once, runs at most one
\* handshake (one connection header, one NEGOTIATE, one INITIATE, one
\* connection context), writes the request frame at most once and reads
\* at most one response.
NoRetry ==
    /\ Count("dial") <= 1
    /\ Count("connection_header") <= 1
    /\ Count("sasl_send") <= 2
    /\ Count("sasl_receive") <= 2
    /\ Count("connection_context") <= 1
    /\ Count("rpc_request") <= 1
    /\ Count("rpc_response") <= 1
    /\ FrameStarts("sasl", "NEGOTIATE") <= 1
    /\ FrameStarts("sasl", "INITIATE") <= 1
    /\ FrameStarts("connection_context", "-") <= 1
    /\ FrameStarts("rpc_request", "-") <= 1

\* A write of the request failed after the frame was begun, and the Call
\* returned the error.
NoRetryWitness ==
    /\ pc = "returned"
    /\ err = << "write" >>
    /\ env.req # << >>
    /\ env.req[1] \in 1..6
    /\ FrameStarts("rpc_request", "-") = 1

\* A step of the Call that returned has failed.
StepFailed ==
    \/ Len(io) = 1
    \/ env.hdr # << >> /\ env.hdr[1] < 4
    \/ SendFailed(env.neg)
    \/ ReceiveFailed(env.negReply)
    \/ ServerErrorStatus(env.negReply)
    \/ env.digest = << "err" >>
    \/ SendFailed(env.init)
    \/ ReceiveFailed(env.initReply)
    \/ ServerErrorStatus(env.initReply)
    \/ env.ugi = << "err" >>
    \/ SendFailed(env.ctx)
    \/ env.req # << >> /\ env.req[1] < 7
    \/ env.resp # << >> /\ ~ReadInFull(env.resp[1])
    \/ env.resp # << >> /\ ReadInFull(env.resp[1]) /\ rpcResponseHeaderProto = << >>
    \/ response = ResponseReset
    \/ /\ rpcResponseHeaderProto # << >>
       /\ rpcResponseHeaderProto[1].clientId.present
       /\ Len(rpcResponseHeaderProto[1].clientId.bytes) >= ClientIdLen
       /\ Take(rpcResponseHeaderProto[1].clientId.bytes, ClientIdLen) # ClientId
    \/ ErrorStatus

\* C16: whenever a step fails (the dial, the header write, a SASL step,
\* building or writing the connection context, the creation of the
\* user-info payload included, the request, the response read, the decoding,
\* the client-id check, a status other than SUCCESS), the Call that returns
\* returns a non-nil error; it returns nil only if every step succeeded.
FailedStepReturnsError ==
    (pc = "returned" /\ StepFailed) => err # NilErr

\* C19: a receive consumes exactly 4 bytes for the length and then exactly
\* total-length bytes of the frame the peer sent, however the transport
\* fragments them.
ExactConsumption ==
    \A i \in DOMAIN io :
        (/\ io[i].read # << >>
         /\ io[i].read[1].sent.total >= 0
         /\ io[i].read[1].sent.body = io[i].read[1].sent.total)
            => /\ io[i].read[1].length = 4
               /\ io[i].read[1].total = io[i].read[1].sent.total
               /\ io[i].read[1].body = io[i].read[1].total

\* ------------------------------------------------------------------------
\* Termination of a Call
\* ------------------------------------------------------------------------
\* A step of the Call that is running.  Every socket operation of a step
\* completes or fails when its deadline expires (Dialer.Timeout for the
\* dial, SetDeadline for the writes and the SASL reads, the deadline of
\* sendRequest for the read of the response), so a step that is enabled is
\* taken.
CallStep ==
    \/ setupConnection
    \/ writeConnectionHeader
    \/ sendNegotiate
    \/ receiveNegotiate
    \/ sendInitiate
    \/ receiveInitiate
    \/ writeConnectionContext
    \/ sendRequest
    \/ readResponseAndClose

FairSpec == Spec /\ WF_vars(CallStep)

\* C17: every invocation of Call eventually returns, whatever the server
\* does (never answering, answering partially, closing, sending garbage).
CallReturns == (pc = "getConnection") ~> (pc = "returned")

\* Control leaves every Call: no phase blocks forever.
CallEnds == (pc = "getConnection") ~> Finished

\* ------------------------------------------------------------------------
\* The total-length field
\* ------------------------------------------------------------------------
\* C11: for every frame the client writes (the request with three parts,
\* the connection context and a SASL frame with two), the total-length
\* field equals the number of bytes written after it, the sum over the
\* parts of the size of the varint of the part's length and the part's
\* length, at every size class of the varint; before the frame is complete
\* the bytes written stay below the field.
TotalLengthExact ==
    /\ sending.next > Len(sending.parts) => sending.field = << sending.after >>
    /\ sending.next \in 1..Len(sending.parts) => sending.after < sending.field[1]

\* A request frame whose parts sit on both sides of the 127/128 and
\* 16383/16384 boundaries was written in full.
TotalLengthExactWitness ==
    /\ sending.kind = "rpc_request"
    /\ sending.parts = << 127, 128, 16384 >>
    /\ sending.next = 4
    /\ sending.after = 127 + 1 + 128 + 2 + 16384 + 3

\* ------------------------------------------------------------------------
\* One connection per Call
\* ------------------------------------------------------------------------
Running(th) == conns.t[th].pc \notin {"idle", "returned"}

\* C14: every Call opens its own new connection and no connection is used
\* by more than one Call: whatever Calls run concurrently, each connection
\* was dialed by one Call, everything done on it (handshake, request,
\* response, close) was done by that Call, and no two running Calls hold
\* the same connection.
ConnectionPerCall ==
    /\ \A u \in conns.used : u.con \in DOMAIN conns.opener /\ conns.opener[u.con] = u.call
    /\ \A c, d \in DOMAIN conns.opener : conns.opener[c] = conns.opener[d] => c = d
    /\ \A th, other \in Threads :
          (th # other /\ Running(th) /\ Running(other) /\ conns.t[th].con # 0)
              => conns.t[th].con # conns.t[other].con

\* Two Calls are in flight at once, each with its request sent on its
\* connection.
ConnectionPerCallWitness ==
    \E th, other \in Threads :
        /\ th # other
        /\ conns.t[th].pc = "readResponse"
        /\ conns.t[other].pc = "readResponse"
        /\ Use(conns.t[th].con, conns.t[th].call, "request") \in conns.used
        /\ Use(conns.t[other].con, conns.t[other].call, "request") \in conns.used

\* ------------------------------------------------------------------------
\* The memory cgroup directory mirrors the CPU cgroup directory
\* ------------------------------------------------------------------------
Containers(names) == { name \in names : HasPrefix(name, "container_") }

\* C18: after syncAllCgroup, with no file operation hindered and no
\* concurrent change, the container_* directories under the memory cgroup
\* path are those under the CPU cgroup path.
MemoryMirrorsCpu ==
    (cgroup.last = Last("syncAllCgroup", TRUE))
        => Containers(cgroup.mem) = Containers(cgroup.cpu)

\* ------------------------------------------------------------------------
\* The identifiers of the request headers
\* ------------------------------------------------------------------------
\* The headers the Call marshalled so far carry the prescribed identifiers.
PrescribedIdentifiers ==
    \A i \in DOMAIN io :
        io[i].header # << >> =>
            LET h == io[i].header[1]
            IN /\ io[i].phase = "rpc_request" =>
                    h.callId = 0 /\ h.clientId = ClientId /\ Len(h.clientId) = 16
               /\ io[i].phase = "connection_context" =>
                    h.callId = -3 /\ h.clientId = ClientId /\ Len(h.clientId) = 16
               /\ io[i].phase = "sasl_send" =>
                    h.callId = -33 /\ Len(h.clientId) = 0 /\ h.retryCount = -1

\* C21: the header of a user call carries call id 0 and the client's
\* 16-byte identifier, the header of the connection context call id -3 and
\* the same identifier, every SASL header call id -33, a zero-length client
\* id and retry count -1; the identifier of the Client never changes, so
\* all non-SASL headers of its lifetime carry the same one.
HeaderIdentifiers ==
    /\ []PrescribedIdentifiers
    /\ [][ClientId' = ClientId]_vars

\* A Call with SASL wrote both SASL frames, the connection context and the
\* request.
HeaderIdentifiersWitness ==
    /\ Count("sasl_send") = 2
    /\ Count("connection_context") = 1
    /\ Count("rpc_request") = 1
    /\ env.req = << 7 >>
    /\ calls = MaxCalls

\* ------------------------------------------------------------------------
\* The round trip of delimited messages
\* ------------------------------------------------------------------------
\* C22: the bytes writeDelimitedBytes produces for a sequence of payloads,
\* zero-length payloads included, parsed by successive calls of
\* readDelimited that each start where the one before ended, yield the
\* original payloads in order, and each call returns the size of the varint
\* plus the length of the payload.
FramingRoundTrips ==
    sending.kind = "delimited" =>
        /\ \A i \in DOMAIN sending.read :
              /\ sending.read[i].kind = "ok"
              /\ sending.read[i].b = sending.parts[i].bytes
              /\ sending.read[i].msg = sending.parts[i].msg
              /\ sending.read[i].off =
                    sizeVarint(Len(sending.parts[i].bytes)) + Len(sending.parts[i].bytes)
        /\ Len(sending.read) = Len(sending.parts) /\ sending.next > Len(sending.parts)
              => sending.off = Len(sending.buf)

\* An empty payload and a long one were written and read back.
FramingRoundTripsWitness ==
    /\ sending.kind = "delimited"
    /\ Len(sending.parts) = 2
    /\ sending.parts[1].bytes = << >>
    /\ Len(sending.parts[2].bytes) = 128
    /\ Len(sending.read) = 2

\* ------------------------------------------------------------------------
\* The client id of SASL replies
\* ------------------------------------------------------------------------
\* A SASL reply whose header carries a client id other than the dummy one.
ForeignSaslId(r) ==
    /\ Whole(r)
    /\ SentHeader(r).clientId.present
    /\ SentHeader(r).clientId.bytes # SASL_RPC_DUMMY_CLIENT_ID

\* A SASL reply whose header carries no client id, or the dummy one.
DummySaslId(r) == Whole(r) /\ ~ForeignSaslId(r)

IncorrectClientId == << "Incorrect clientId" >>

\* C23: a client id present in the header of the reply to NEGOTIATE or to
\* INITIATE must equal the dummy client id; when it differs the receive
\* returns the integrity error, the SASL message is not used and the
\* negotiation fails: Call returns that error and nothing more is sent.
SaslClientIdChecked ==
    /\ ForeignSaslId(env.negReply) =>
          /\ pc = "returned" /\ err = IncorrectClientId
          /\ env.digest = << >> /\ env.init = << >>
          /\ ~Written("connection_context") /\ ~Written("rpc_request")
    /\ ForeignSaslId(env.initReply) =>
          /\ pc = "returned" /\ err = IncorrectClientId
          /\ env.ctx = << >>
          /\ ~Written("connection_context") /\ ~Written("rpc_request")
    /\ (DummySaslId(env.negReply) /\ env.init = << >>) => err # IncorrectClientId
    /\ (DummySaslId(env.initReply) /\ env.ctx = << >>) => err # IncorrectClientId

\* The reply to INITIATE carried the client's own id and was refused.
SaslClientIdCheckedWitness ==
    /\ ForeignSaslId(env.initReply)
    /\ SentHeader(env.initReply).status = "SUCCESS"
    /\ SentSasl(env.initReply).state = "SUCCESS"
    /\ pc = "returned"

\* ------------------------------------------------------------------------
\* The response of a successful call
\* ------------------------------------------------------------------------
\* The response header reports SUCCESS and its client id passed the check.
SuccessAccepted ==
    /\ pc = "returned"
    /\ Whole(env.resp)
    /\ SentHeader(env.resp).status = "SUCCESS"
    /\ rpcResponseHeaderProto = << SentHeader(env.resp) >>
    /\ \E grow \in BOOLEAN : checkRpcHeader(ClientId, SentHeader(env.resp), grow) = "ok"
    /\ err # IncorrectClientId

\* The server answers SUCCESS under the client's id, or none, and sends
\* the request back as the response.
EchoingServer ==
    /\ Whole(env.resp)
    /\ env.resp[1].sent.h \in {1, 2}
    /\ env.param # << >>
    /\ env.resp[1].sent.m = env.param[1]

\* C24: when the header reports SUCCESS and the client-id check passes,
\* the caller's response message is the delimited message that follows the
\* header and Call returns nil; with no token configured and a server
\* that echoes, the response decoded equals the request.
SuccessFillsResponse ==
    /\ SuccessAccepted =>
          /\ err = NilErr
          /\ response = PayloadMsgs[env.resp[1].sent.m]
    /\ (pc = "returned" /\ authProtocol = AUTH_PROTOCOL_NONE /\ EchoingServer) =>
          /\ err = NilErr
          /\ response = PayloadMsgs[env.param[1]]

\* Without a token, a request other than the first payload came back.
SuccessFillsResponseWitness ==
    /\ pc = "returned"
    /\ authProtocol = AUTH_PROTOCOL_NONE
    /\ EchoingServer
    /\ SuccessAccepted
    /\ env.param = << 2 >>
    /\ response = PayloadMsgs[2]

\* ------------------------------------------------------------------------
\* Frames with a bad length
\* ------------------------------------------------------------------------
\* A receive decoded a negative total length.
NegativeLength(r) == r # << >> /\ ~r[1].ioerr /\ totalLengthRead(r[1]) < 0

\* C25: a frame whose total length is negative makes readResponse, and
\* receiveSaslMessage, return an error: the Call returns a non-nil error
\* and does not crash on allocating or reading the body.
NegativeLengthIsError ==
    (\E r \in {env.negReply, env.initReply, env.resp} : NegativeLength(r))
        => pc = "returned" /\ err # NilErr

\* The bytes of a reply that readDelimited is called on first and, when
\* the header in them is whole, second.
DelimitedAt(reply) ==
    LET total == totalLengthRead(reply)
        responseBytes == Take(Unread(reply), total)
        cv == ConsumeVarint(responseBytes)
    IN << responseBytes >>
        \o IF cv.n > 0 /\ SliceOk(responseBytes, cv.n, cv.n + cv.v)
           THEN << Slice(responseBytes, cv.n + cv.v, total) >>
           ELSE << >>

\* The varint at the start of b is valid and declares more bytes than
\* follow it.
DeclaresTooMuch(b) ==
    LET cv == ConsumeVarint(b)
    IN cv.n > 0 /\ cv.n + cv.v > Len(b)

\* The header, or the payload after a SUCCESS header without a client id,
\* declares more bytes than the frame holds.
LengthPastEnd(r) ==
    /\ r # << >>
    /\ ReadInFull(r[1])
    /\ LET at == DelimitedAt(r[1])
       IN \/ DeclaresTooMuch(at[1])
          \/ /\ Len(at) = 2
             /\ r[1].sent.h = 1
             /\ DeclaresTooMuch(at[2])

\* C26: readDelimited never reads outside its buffer: when the length the
\* varint declares exceeds the bytes that remain, for the header or for the
\* payload, it returns an error, which the Call returns, and does not
\* slice past the end.
LengthPastEndIsError ==
    LengthPastEnd(env.resp) => pc = "returned" /\ err # NilErr

\* ------------------------------------------------------------------------
\* Signals and removals of the node manager operator
\* ------------------------------------------------------------------------
\* The process list of the container's CPU cgroup can be read and lists a
\* pid.
Listed(tree, containerID) ==
    /\ containerID \in DOMAIN tree
    /\ ~tree[containerID].procs.err
    /\ Len(tree[containerID].procs.read) > 0

\* C27: KillContainer never signals the process group 0 or 1 or a negative
\* one: when the container's CPU cgroup cannot be read or lists no pid, or
\* the first pid is at most 1, it returns an error and sends no signal;
\* otherwise it sends SIGKILL once, to the process group whose id is the
\* first pid listed.
KillContainerSparesInit ==
    /\ \A i \in DOMAIN cgroup.signals :
          /\ cgroup.signals[i].sig = SIGKILL
          /\ cgroup.signals[i].pid < 0
          /\ -cgroup.signals[i].pid > 1
    /\ cgroup.last.op # "KillContainer" => cgroup.signals = cgroup.last.signals
    /\ cgroup.last.op = "KillContainer" =>
          LET tree == cgroup.last.tree
              containerID == cgroup.last.arg
          IN IF ~Listed(tree, containerID) \/ tree[containerID].procs.read[1] <= 1
             THEN cgroup.last.failed /\ cgroup.signals = cgroup.last.signals
             ELSE cgroup.signals =
                    Append(cgroup.last.signals, Kill(-(tree[containerID].procs.read[1]), SIGKILL))

\* A container whose list starts with pid 7 was killed.
KillContainerSparesInitWitness ==
    /\ cgroup.last.op = "KillContainer"
    /\ Listed(cgroup.last.tree, cgroup.last.arg)
    /\ cgroup.signals = << Kill(-7, SIGKILL) >>

\* C30: syncNoneProcCgroup removes a directory under the CPU cgroup path
\* only if it is directly under that path and its process list was read
\* and is empty; it never removes the path itself, never a directory whose
\* process list is not empty or cannot be read, and nothing below a
\* directory it kept.
NoneProcRemovesOnlyEmpty ==
    cgroup.last.op = "syncNoneProcCgroup" =>
        LET tree == cgroup.last.tree
        IN /\ \A path \in cgroup.last.calls :
                 \E name \in DOMAIN tree :
                     path = Child(name) /\ tree[name].procs = Read(FALSE, << >>)
           /\ cpuPath \notin cgroup.last.calls
           /\ DOMAIN cgroup.tree \subseteq DOMAIN tree
           /\ \A name \in DOMAIN tree :
                 /\ tree[name].procs # Read(FALSE, << >>) =>
                       name \in DOMAIN cgroup.tree /\ cgroup.tree[name] = tree[name]
                 /\ name \in DOMAIN cgroup.tree => cgroup.tree[name] = tree[name]
                 /\ name \notin DOMAIN cgroup.tree => Child(name) \in cgroup.last.calls

\* One directory with an empty list was removed; one with processes, and a
\* directory below it, was kept.
NoneProcRemovesOnlyEmptyWitness ==
    /\ cgroup.last.op = "syncNoneProcCgroup"
    /\ \E gone \in DOMAIN cgroup.last.tree, kept \in DOMAIN cgroup.tree :
          /\ gone \notin DOMAIN cgroup.tree
          /\ cgroup.tree[kept].procs = Read(FALSE, << 7, 1 >>)
          /\ cgroup.tree[kept].below

\* ------------------------------------------------------------------------
\* Memory directories that are not of containers
\* ------------------------------------------------------------------------
\* The names that do not start with container_.
Foreign(names) == names \ Containers(names)

\* Neither function changes the memory directories when handed a path
\* whose base name does not start with container_.
ForeignPathIgnored ==
    \A name \in Foreign(DirNames), dir \in {CgroupCPUDir, CgroupMemDir},
       broken \in SUBSET ContainerNames :
        /\ createMemoryCgroup(cgroup.mem, Join(dir, name), broken) = cgroup.mem
        /\ removeMemoryCgroup(cgroup.mem, Join(dir, name), broken) = cgroup.mem

\* C28: createMemoryCgroup and removeMemoryCgroup change nothing when the
\* base name of the path lacks the container_ prefix: over any sequence of
\* directory-created events, directory-removed events and runs of
\* syncAllCgroup, no directory under the memory cgroup path whose name
\* lacks the prefix is created or removed.
ForeignMemoryUntouched ==
    /\ []ForeignPathIgnored
    /\ [][Foreign(cgroup.mem') = Foreign(cgroup.mem)]_vars

\* syncAllCgroup ran over a memory directory that is not of a container
\* and has no CPU directory, and over a CPU directory that is not of a
\* container and has no memory directory.
ForeignMemoryUntouchedWitness ==
    /\ cgroup.last = Last("syncAllCgroup", TRUE)
    /\ Foreign(cgroup.mem) # {}
    /\ Foreign(cgroup.cpu) = {}
    /\ Containers(cgroup.cpu) # {}

\* ------------------------------------------------------------------------
\* The shutdown of the server
\* ------------------------------------------------------------------------
\* Run has returned after the context was cancelled.
ReturnedOnCancel == server.pc = "returned" /\ server.ctx = "cancelled"

\* C29: when the context passed to Run is cancelled, Run calls the
\* Shutdown of the HTTP server, so that the serving goroutine stops
\* accepting requests, and only then returns.
ShutdownBeforeReturn ==
    [](ReturnedOnCancel =>
          /\ server.shutdown > 0
          /\ server.listener = "closed"
          /\ ~server.serving)

====
